---- MODULE Spec2Model ----
(***************************************************************************)
(* Company-data access layer of the business-contact manager:              *)
(*   - MemStorage        (server/storage.ts)        in-memory Map store    *)
(*   - DatabaseStorage   (server/routes.ts.frontend) relational table      *)
(*   - mockDataService   (client mock, localStorage-backed list)           *)
(*   - the HTTP route layer that calls the storage singleton               *)
(* Searches read text fields character by character (Chars), so that      *)
(* toLowerCase() and includes() are computed, not assumed.                 *)
(***************************************************************************)
EXTENDS Integers, Sequences, FiniteSets, TLC

VARIABLES
    variant,           \* which deployment runs: "mem", "mock" or "pair"
    companiesMap,      \* MemStorage.companiesMap: records in Map insertion order
    currentCompanyId,  \* MemStorage.currentCompanyId
    memAssigned,       \* history: identifiers createCompany has assigned so far
    memLast,           \* history: the last call on MemStorage (direct or through
                       \* a route), what it returned and the HTTP response
    localStorage,      \* localStorage item 'companies' of the mock service
    mockAssigned,      \* history: identifiers createCompany and importCompanies
                       \* of the mock service have assigned so far
    mockLast,          \* history: the last mockDataService call and its result
    dbTable,           \* DatabaseStorage: the rows of table companies
    dbSeq,             \* DatabaseStorage: last value of the serial sequence
    dbLast,            \* history: the last DatabaseStorage call and its result
    inflight,          \* the calls and requests suspended at an await, each
                       \* with its local variables
    dataTable,         \* the state of the DataTable component, and the number
                       \* of records the backend it talks to holds
    importExcel,       \* the state of the upload-based ImportExcel component
    script             \* run-frontend: the files it works on and where it stands

memVars  == <<companiesMap, currentCompanyId, memAssigned, memLast>>
mockVars == <<localStorage, mockAssigned, mockLast>>
dbVars   == <<dbTable, dbSeq, dbLast>>
procVars == <<inflight, dataTable, importExcel, script>>
vars     == <<variant, memVars, mockVars, dbVars, procVars>>

--------------------------------------------------------------------------
(* Bounds of the model *)

\* at most MaxInflight storage calls are suspended at a time
MaxInflight == 2

\* an upload starts only while fewer than MaxIntervals interval timers run
MaxIntervals == 2

\* identifiers are assigned only while the next one is at most MaxId
MaxId == 4
\* page numbers of direct calls range over 1 .. MaxPage
MaxPage == 3
\* page sizes range over 1 .. MaxPageSize
MaxPageSize == 2
\* batches are created only while the identifiers they get are at most MaxBulkId
MaxBulkId == 5

Pages     == 1..MaxPage
PageSizes == 1..MaxPageSize
Ids       == 1..(MaxId + 1)

--------------------------------------------------------------------------
(* Values *)

\* the value JavaScript calls undefined
Undefined == [undefined |-> TRUE]
\* what parseInt returns: NaN for a missing or non-numeric parameter, else a number
NaN    == [nan |-> TRUE, n |-> 0]
Num(n) == [nan |-> FALSE, n |-> n]

SearchFields == <<"name", "contact", "email", "industry", "location">>

sampleCompanies ==
    << [ name        |-> "Acme Inc.",
         contact     |-> "John Smith",
         email       |-> "john@acmeinc.com",
         phone       |-> "+1 (555) 123-4567",
         industry    |-> "Technology",
         location    |-> "San Francisco, CA",
         employees   |-> 250,
         revenue     |-> "$25M",
         status      |-> "Active",
         lastContact |-> "2023-08-15" ],
       [ name        |-> "TechCorp",
         contact     |-> "Jane Doe",
         email       |-> "jane@techcorp.com",
         phone       |-> "+1 (555) 987-6543",
         industry    |-> "Software",
         location    |-> "Austin, TX",
         employees   |-> 500,
         revenue     |-> "$50M",
         status      |-> "Pending",
         lastContact |-> "2023-08-10" ],
       [ name        |-> "Global Industries",
         contact     |-> "Michael Johnson",
         email       |-> "michael@globalind.com",
         phone       |-> "+1 (555) 222-3333",
         industry    |-> "Manufacturing",
         location    |-> "Chicago, IL",
         employees   |-> 1200,
         revenue     |-> "$120M",
         status      |-> "Inactive",
         lastContact |-> "2023-07-22" ] >>

\* the request body of type InsertCompany used for creation
NewCompany ==
    [ name        |-> "ACME Labs",
      contact     |-> "Ann Lee",
      email       |-> "ann@labs.io",
      phone       |-> "N/A",
      industry    |-> "Biotech",
      location    |-> "Boston, MA",
      employees   |-> 12,
      revenue     |-> "Unknown",
      status      |-> "New",
      lastContact |-> "2024-01-05" ]

InsertCompanies == { NewCompany }

\* a second request body, for batches of different records
OtherCompany ==
    [ name        |-> "Nordwind",
      contact     |-> "Ole Berg",
      email       |-> "ole@nordwind.no",
      phone       |-> "+47 22 00 00 00",
      industry    |-> "Shipping",
      location    |-> "Oslo",
      employees   |-> 40,
      revenue     |-> "$3M",
      status      |-> "Active",
      lastContact |-> "2024-02-11" ]

\* batches passed to createManyCompanies / importCompanies: none, one record,
\* two different records in either order
BulkLists ==
    { <<>>, <<NewCompany>>, <<NewCompany, OtherCompany>>, <<OtherCompany, NewCompany>> }

\* request bodies of type Partial<InsertCompany> used for updates
PartialCompanies ==
    { [ name |-> "Zeta Group", employees |-> 7 ] }

\* lists passed to createManyCompanies / importCompanies
CompanyLists ==
    {<<>>} \cup { <<c>> : c \in InsertCompanies }
           \cup { <<c, d>> : c \in InsertCompanies, d \in InsertCompanies }

\* search strings: one that occurs, in either case, in names and e-mail
\* addresses, and one that occurs in no searched field but in the status
Queries ==
    { "acme", "Active" }

--------------------------------------------------------------------------
(* JavaScript built-ins the code relies on *)

UpperCase == <<"A","B","C","D","E","F","G","H","I","J","K","L","M",
               "N","O","P","Q","R","S","T","U","V","W","X","Y","Z">>
LowerCase == <<"a","b","c","d","e","f","g","h","i","j","k","l","m",
               "n","o","p","q","r","s","t","u","v","w","x","y","z">>
UpperSet  == { UpperCase[k] : k \in 1..Len(UpperCase) }

\* the characters of the strings that searches read
Chars ==
    ("Acme Inc." :> <<"A","c","m","e"," ","I","n","c",".">>) @@
    ("John Smith" :> <<"J","o","h","n"," ","S","m","i","t","h">>) @@
    ("john@acmeinc.com" :> <<"j","o","h","n","@","a","c","m","e","i","n","c",".","c","o","m">>) @@
    ("Technology" :> <<"T","e","c","h","n","o","l","o","g","y">>) @@
    ("San Francisco, CA" :> <<"S","a","n"," ","F","r","a","n","c","i","s","c","o",","," ","C","A">>) @@
    ("TechCorp" :> <<"T","e","c","h","C","o","r","p">>) @@
    ("Jane Doe" :> <<"J","a","n","e"," ","D","o","e">>) @@
    ("jane@techcorp.com" :> <<"j","a","n","e","@","t","e","c","h","c","o","r","p",".","c","o","m">>) @@
    ("Software" :> <<"S","o","f","t","w","a","r","e">>) @@
    ("Austin, TX" :> <<"A","u","s","t","i","n",","," ","T","X">>) @@
    ("Global Industries" :> <<"G","l","o","b","a","l"," ","I","n","d","u","s","t","r","i","e","s">>) @@
    ("Michael Johnson" :> <<"M","i","c","h","a","e","l"," ","J","o","h","n","s","o","n">>) @@
    ("michael@globalind.com" :> <<"m","i","c","h","a","e","l","@","g","l","o","b","a","l","i","n","d",".","c","o","m">>) @@
    ("Manufacturing" :> <<"M","a","n","u","f","a","c","t","u","r","i","n","g">>) @@
    ("Chicago, IL" :> <<"C","h","i","c","a","g","o",","," ","I","L">>) @@
    ("ACME Labs" :> <<"A","C","M","E"," ","L","a","b","s">>) @@
    ("Ann Lee" :> <<"A","n","n"," ","L","e","e">>) @@
    ("ann@labs.io" :> <<"a","n","n","@","l","a","b","s",".","i","o">>) @@
    ("Biotech" :> <<"B","i","o","t","e","c","h">>) @@
    ("Boston, MA" :> <<"B","o","s","t","o","n",","," ","M","A">>) @@
    ("Zeta Group" :> <<"Z","e","t","a"," ","G","r","o","u","p">>) @@
    ("TECH" :> <<"T","E","C","H">>) @@
    ("Nordwind" :> <<"N","o","r","d","w","i","n","d">>) @@
    ("Ole Berg" :> <<"O","l","e"," ","B","e","r","g">>) @@
    ("ole@nordwind.no" :> <<"o","l","e","@","n","o","r","d","w","i","n","d",".","n","o">>) @@
    ("Shipping" :> <<"S","h","i","p","p","i","n","g">>) @@
    ("Oslo" :> <<"O","s","l","o">>) @@
    ("name" :> <<"n","a","m","e">>) @@
    ("contact" :> <<"c","o","n","t","a","c","t">>) @@
    ("contactname" :> <<"c","o","n","t","a","c","t","n","a","m","e">>) @@
    ("contactperson" :> <<"c","o","n","t","a","c","t","p","e","r","s","o","n">>) @@
    ("email" :> <<"e","m","a","i","l">>) @@
    ("emailaddress" :> <<"e","m","a","i","l","a","d","d","r","e","s","s">>) @@
    ("phone" :> <<"p","h","o","n","e">>) @@
    ("phonenumber" :> <<"p","h","o","n","e","n","u","m","b","e","r">>) @@
    ("industry" :> <<"i","n","d","u","s","t","r","y">>) @@
    ("sector" :> <<"s","e","c","t","o","r">>) @@
    ("location" :> <<"l","o","c","a","t","i","o","n">>) @@
    ("address" :> <<"a","d","d","r","e","s","s">>) @@
    ("employees" :> <<"e","m","p","l","o","y","e","e","s">>) @@
    ("employeecount" :> <<"e","m","p","l","o","y","e","e","c","o","u","n","t">>) @@
    ("employeenumber" :> <<"e","m","p","l","o","y","e","e","n","u","m","b","e","r">>) @@
    ("revenue" :> <<"r","e","v","e","n","u","e">>) @@
    ("annualrevenue" :> <<"a","n","n","u","a","l","r","e","v","e","n","u","e">>) @@
    ("status" :> <<"s","t","a","t","u","s">>) @@
    ("companystatus" :> <<"c","o","m","p","a","n","y","s","t","a","t","u","s">>) @@
    ("lastcontact" :> <<"l","a","s","t","c","o","n","t","a","c","t">>) @@
    ("lastcontactdate" :> <<"l","a","s","t","c","o","n","t","a","c","t","d","a","t","e">>) @@
    ("Name" :> <<"N","a","m","e">>) @@
    ("contactPerson" :> <<"c","o","n","t","a","c","t","P","e","r","s","o","n">>) @@
    ("emailAddress" :> <<"e","m","a","i","l","A","d","d","r","e","s","s">>) @@
    ("employeeCount" :> <<"e","m","p","l","o","y","e","e","C","o","u","n","t">>) @@
    ("Status" :> <<"S","t","a","t","u","s">>) @@
    ("notes" :> <<"n","o","t","e","s">>) @@
    ("acme" :> <<"a","c","m","e">>) @@
    ("Active" :> <<"A","c","t","i","v","e">>) @@
    ("Pending" :> <<"P","e","n","d","i","n","g">>) @@
    ("Inactive" :> <<"I","n","a","c","t","i","v","e">>) @@
    ("New" :> <<"N","e","w">>) @@
    ("" :> <<>>)

\* a string as the sequence of its characters
chars(s) == Chars[s]

\* one character of String.prototype.toLowerCase
toLowerChar(c) ==
    IF c \in UpperSet
    THEN LowerCase[CHOOSE k \in 1..Len(UpperCase) : UpperCase[k] = c]
    ELSE c

\* toLowerCase on a sequence of characters
lowerChars(cs) == SubSeq([ i \in 1..Len(cs) |-> toLowerChar(cs[i]) ], 1, Len(cs))

\* lowerChars of every string of keys, computed once
RECURSIVE LowerTable(_)
LowerTable(keys) ==
    LET k == CHOOSE x \in keys : TRUE
    IN  IF keys = {k} THEN k :> lowerChars(Chars[k])
        ELSE (k :> lowerChars(Chars[k])) @@ LowerTable(keys \ {k})

LowerCased == LowerTable(DOMAIN Chars)

\* String.prototype.toLowerCase: the characters of the lowercased string
toLowerCase(s) == LowerCased[s]

\* String.prototype.includes
\* faulty variant of includes: the empty string occurs nowhere
includes_nonEmpty(s, q) ==
    /\ q # <<>>
    /\ \E i \in 0..(Len(s) - Len(q)) : \A j \in 1..Len(q) : s[i + j] = q[j]

includes(s, q) ==
    \E i \in 0..(Len(s) - Len(q)) : \A j \in 1..Len(q) : s[i + j] = q[j]

Max(a, b) == IF a >= b THEN a ELSE b
Min(a, b) == IF a <= b THEN a ELSE b

\* Array.prototype.slice(start, end): negative indices count from the end
slice(arr, start, end) ==
    LET len == Len(arr)
        k     == IF start < 0 THEN Max(len + start, 0) ELSE Min(start, len)
        final == IF end < 0 THEN Max(len + end, 0) ELSE Min(end, len)
    IN  SubSeq(arr, k + 1, final)

\* object spread { ...a, ...b }
Spread(a, b) == b @@ a

\* the identifiers of a list of records
IdsOf(arr) == { arr[i].id : i \in 1..Len(arr) }

\* Math.max(...arr.map(c => c.id)) of a non-empty list
MaxIdOf(arr) == CHOOSE m \in IdsOf(arr) : \A i \in IdsOf(arr) : i <= m

--------------------------------------------------------------------------
(* JavaScript Map, kept as the list of its values in insertion order *)

MapHas(map, id) == \E i \in 1..Len(map) : map[i].id = id
MapIndex(map, id) == CHOOSE i \in 1..Len(map) : map[i].id = id

\* Map.prototype.get
MapGet(map, id) == IF MapHas(map, id) THEN map[MapIndex(map, id)] ELSE Undefined

\* Map.prototype.set: an existing key keeps its position, a new key goes last
MapSet(map, id, value) ==
    IF MapHas(map, id)
    THEN [map EXCEPT ![MapIndex(map, id)] = value]
    ELSE Append(map, value)

\* Map.prototype.delete: the map without the key
MapDelete(map, id) == SelectSeq(map, LAMBDA c : c.id # id)

\* faulty variant of the filter predicate: the status is searched as well
Matches_withStatus(company, lowercaseQuery) ==
    \E f \in 1..Len(SearchFields) + 1 :
        LET field == toLowerCase(company[Append(SearchFields, "status")[f]])
        IN  includes(field, lowercaseQuery)

\* the filter predicate of searchCompanies: some searched field, lowercased,
\* contains the lowercased query
Matches(company, lowercaseQuery) ==
    \E f \in 1..Len(SearchFields) :
        LET field == toLowerCase(company[SearchFields[f]])
        IN  includes(field, lowercaseQuery)

--------------------------------------------------------------------------
(* MemStorage (server/storage.ts) *)

\* faulty variant of getCompanies: takes the page number as the 0-based offset
Mem_getCompanies_pageFromZero(map, page, pageSize) ==
    LET companies  == map
        total      == Len(companies)
        startIndex == page * pageSize
        endIndex   == startIndex + pageSize
    IN  [companies |-> slice(companies, startIndex, endIndex), total |-> total]

\* faulty variant of getCompanies: the window ends one record too late
Mem_getCompanies_longWindow(map, page, pageSize) ==
    LET companies  == map
        total      == Len(companies)
        startIndex == (page - 1) * pageSize
        endIndex   == startIndex + pageSize + 1
    IN  [companies |-> slice(companies, startIndex, endIndex), total |-> total]

Mem_getCompanies(map, page, pageSize) ==
    LET companies  == map
        total      == Len(companies)
        startIndex == (page - 1) * pageSize
        endIndex   == startIndex + pageSize
    IN  [companies |-> slice(companies, startIndex, endIndex), total |-> total]

Mem_getCompany(map, id) == MapGet(map, id)

\* faulty variant of createCompany: numbers the record by the size of the map
Mem_createCompany_bySize(map, cur, insertCompany) ==
    LET id      == Len(map) + 1
        company == Spread(insertCompany, [id |-> id])
    IN  [map |-> MapSet(map, id, company), cur |-> cur + 1, result |-> company]

\* returns the new map, the new counter and the created record
Mem_createCompany(map, cur, insertCompany) ==
    LET id      == cur
        company == Spread(insertCompany, [id |-> id])
    IN  [map |-> MapSet(map, id, company), cur |-> cur + 1, result |-> company]

\* faulty variant of updateCompany: stores the supplied fields alone
Mem_updateCompany_replace(map, id, companyData) ==
    LET company == MapGet(map, id)
    IN  IF company = Undefined
        THEN [map |-> map, result |-> Undefined]
        ELSE LET updatedCompany == Spread(companyData, [id |-> id])
             IN  [map |-> MapSet(map, id, updatedCompany), result |-> updatedCompany]

\* faulty variant of updateCompany: stores the merge also when the record is missing
Mem_updateCompany_upsert(map, id, companyData) ==
    LET company        == MapGet(map, id)
        updatedCompany == Spread(IF company = Undefined THEN [id |-> id] ELSE company,
                                 companyData)
    IN  [map |-> MapSet(map, id, updatedCompany), result |-> updatedCompany]

\* returns the new map and the updated record, or the old map and undefined
Mem_updateCompany(map, id, companyData) ==
    LET company == MapGet(map, id)
    IN  IF company = Undefined
        THEN [map |-> map, result |-> Undefined]
        ELSE LET updatedCompany == Spread(company, companyData)
             IN  [map |-> MapSet(map, id, updatedCompany), result |-> updatedCompany]

\* faulty variant of deleteCompany: answers true whatever was removed
Mem_deleteCompany_alwaysTrue(map, id) ==
    [map |-> MapDelete(map, id), result |-> TRUE]

Mem_deleteCompany(map, id) ==
    [map |-> MapDelete(map, id), result |-> MapHas(map, id)]

Mem_searchCompanies(map, query, page, pageSize) ==
    LET companies         == map
        lowercaseQuery    == toLowerCase(query)
        filteredCompanies == SelectSeq(companies, LAMBDA c : Matches(c, lowercaseQuery))
        total             == Len(filteredCompanies)
        startIndex        == (page - 1) * pageSize
        endIndex          == startIndex + pageSize
    IN  [companies |-> slice(filteredCompanies, startIndex, endIndex), total |-> total]

\* the loop of createManyCompanies; created collects the records it made
RECURSIVE Mem_createManyCompanies(_, _, _)
\* faulty variant of the loop body: a call numbers its records on from the
\* identifier of the record it created last
Mem_createManyStep_ownNumbering(map, cur, call) ==
    LET id      == IF call.created = <<>> THEN cur
                   ELSE call.created[Len(call.created)].id + 1
        company == Spread(Head(call.todo), [id |-> id])
    IN  [map |-> MapSet(map, id, company), cur |-> cur + 1,
         call |-> [call EXCEPT !.todo = Tail(@), !.created = Append(@, company)]]

\* one turn of the loop of createManyCompanies, up to its await: todo holds
\* the records still to create, created those createCompany has returned
Mem_createManyStep(map, cur, call) ==
    LET one == Mem_createCompany(map, cur, Head(call.todo))
    IN  [map |-> one.map, cur |-> one.cur,
         call |-> [call EXCEPT !.todo = Tail(@), !.created = Append(@, one.result)]]

Mem_createManyCompanies(map, cur, insertCompanies) ==
    IF insertCompanies = <<>>
    THEN [map |-> map, cur |-> cur, result |-> 0, created |-> <<>>]
    ELSE LET one  == Mem_createCompany(map, cur, Head(insertCompanies))
             rest == Mem_createManyCompanies(one.map, one.cur, Tail(insertCompanies))
         IN  [map |-> rest.map, cur |-> rest.cur, result |-> rest.result + 1,
              created |-> <<one.result>> \o rest.created]

\* the constructor: an empty map, counter 1, then the three samples are created
MemConstructed == Mem_createManyCompanies(<<>>, 1, sampleCompanies)

--------------------------------------------------------------------------
(* mockDataService (client lib/mockData.ts): a list kept as JSON text in    *)
(* localStorage. The JSON text of a list is the list of its objects' texts; *)
(* the text of an object is the list of its <<key, value>> members.         *)

KeyOrder == <<"id", "name", "contact", "email", "phone", "industry", "location",
              "employees", "revenue", "status", "lastContact">>

\* JSON.stringify of one object: its members, key by key
RECURSIVE StringifyKeys(_, _)
StringifyKeys(obj, keys) ==
    IF keys = <<>> THEN <<>>
    ELSE (IF Head(keys) \in DOMAIN obj THEN << <<Head(keys), obj[Head(keys)]>> >> ELSE <<>>)
         \o StringifyKeys(obj, Tail(keys))

StringifyObject(obj) == StringifyKeys(obj, KeyOrder)

\* JSON.parse of one object text: a later member replaces an earlier one
RECURSIVE ParseObject(_)
ParseObject(text) ==
    IF Len(text) = 1 THEN text[1][1] :> text[1][2]
    ELSE ParseObject(Tail(text)) @@ (text[1][1] :> text[1][2])

RECURSIVE JSONstringify(_)
JSONstringify(companies) ==
    IF companies = <<>> THEN <<>>
    ELSE <<StringifyObject(Head(companies))>> \o JSONstringify(Tail(companies))

RECURSIVE JSONparse(_)
JSONparse(text) ==
    IF text = <<>> THEN <<>> ELSE <<ParseObject(Head(text))>> \o JSONparse(Tail(text))

\* localStorage.getItem returns null for a key that was never set
NoItem == [present |-> FALSE, text |-> <<>>]
Item(text) == [present |-> TRUE, text |-> text]

\* the literal initialCompanies: the three samples with ids 1, 2, 3. The array is
\* read only while the item is missing, which is the case at most once (nothing
\* removes the item), so what push and index assignment later do to it through
\* the reference loadCompanies returned is never read.
initialCompanies ==
    [ i \in 1..Len(sampleCompanies) |-> sampleCompanies[i] @@ ("id" :> i) ]

\* loadCompanies: the parsed item, or (item missing) initialCompanies, which is
\* then also what the item is set to
loadCompanies(ls) ==
    IF ls.present
    THEN [companies |-> JSONparse(ls.text), ls |-> ls]
    ELSE [companies |-> initialCompanies, ls |-> Item(JSONstringify(initialCompanies))]

saveCompanies(companies) == Item(JSONstringify(companies))

Mock_getCompanies(ls, page, pageSize) ==
    LET l          == loadCompanies(ls)
        startIndex == (page - 1) * pageSize
        endIndex   == startIndex + pageSize
    IN  [ls |-> l.ls,
         result |-> [companies |-> slice(l.companies, startIndex, endIndex),
                     total |-> Len(l.companies)]]

\* Array.prototype.findIndex, 1-based here, 0 when nothing matches (-1 in JS)
findIndex(companies, id) ==
    IF \E i \in 1..Len(companies) : companies[i].id = id
    THEN CHOOSE i \in 1..Len(companies) :
            /\ companies[i].id = id
            /\ \A j \in 1..(i - 1) : companies[j].id # id
    ELSE 0

Mock_getCompany(ls, id) ==
    LET l == loadCompanies(ls)
        i == findIndex(l.companies, id)
    IN  [ls |-> l.ls, result |-> IF i = 0 THEN Undefined ELSE l.companies[i]]

Mock_createCompany(ls, company) ==
    LET l          == loadCompanies(ls)
        newId      == IF Len(l.companies) > 0 THEN MaxIdOf(l.companies) + 1 ELSE 1
        newCompany == Spread(company, [id |-> newId])
    IN  [ls |-> saveCompanies(Append(l.companies, newCompany)), result |-> newCompany]

Mock_updateCompany(ls, id, companyData) ==
    LET l     == loadCompanies(ls)
        index == findIndex(l.companies, id)
    IN  IF index = 0
        THEN [ls |-> l.ls, result |-> Undefined]
        ELSE LET updatedCompany == Spread(l.companies[index], companyData)
             IN  [ls |-> saveCompanies([l.companies EXCEPT ![index] = updatedCompany]),
                  result |-> updatedCompany]

Mock_deleteCompany(ls, id) ==
    LET l                 == loadCompanies(ls)
        filteredCompanies == SelectSeq(l.companies, LAMBDA c : c.id # id)
    IN  IF Len(filteredCompanies) = Len(l.companies)
        THEN [ls |-> l.ls, result |-> FALSE]
        ELSE [ls |-> saveCompanies(filteredCompanies), result |-> TRUE]

Mock_searchCompanies(ls, query, page, pageSize) ==
    LET l                 == loadCompanies(ls)
        lowercaseQuery    == toLowerCase(query)
        filteredCompanies == SelectSeq(l.companies, LAMBDA c : Matches(c, lowercaseQuery))
        startIndex        == (page - 1) * pageSize
        endIndex          == startIndex + pageSize
    IN  [ls |-> l.ls,
         result |-> [companies |-> slice(filteredCompanies, startIndex, endIndex),
                     total |-> Len(filteredCompanies)]]

\* the map callback of importCompanies: the k-th new record gets lastId + k
RECURSIVE Mock_newCompanies(_, _)
Mock_newCompanies(companies, lastId) ==
    IF companies = <<>> THEN <<>>
    ELSE <<Spread(Head(companies), [id |-> lastId + 1])>>
         \o Mock_newCompanies(Tail(companies), lastId + 1)

\* faulty variant of importCompanies: every new record gets lastId + 1
Mock_importCompanies_sameId(ls, companies) ==
    LET l            == loadCompanies(ls)
        lastId       == IF Len(l.companies) > 0 THEN MaxIdOf(l.companies) ELSE 0
        newCompanies == [ k \in 1..Len(companies) |->
                            Spread(companies[k], [id |-> lastId + 1]) ]
        updatedCompanies == l.companies \o newCompanies
    IN  [ls |-> saveCompanies(updatedCompanies),
         result |-> Len(newCompanies), created |-> newCompanies]

Mock_importCompanies(ls, companies) ==
    LET l            == loadCompanies(ls)
        lastId       == IF Len(l.companies) > 0 THEN MaxIdOf(l.companies) ELSE 0
        newCompanies == Mock_newCompanies(companies, lastId)
        updatedCompanies == l.companies \o newCompanies
    IN  [ls |-> saveCompanies(updatedCompanies),
         result |-> Len(newCompanies), created |-> newCompanies]

\* the list the mock service would load now
MockCompanies == loadCompanies(localStorage).companies

--------------------------------------------------------------------------
(* DatabaseStorage (server/routes.ts.frontend): table companies with a      *)
(* serial primary key, queried through the SQL the query builder emits      *)

\* ORDER BY id DESC
RECURSIVE OrderByIdDesc(_)
OrderByIdDesc(rows) ==
    IF rows = {} THEN <<>>
    ELSE LET top == CHOOSE r \in rows : \A s \in rows : s.id <= r.id
         IN  <<top>> \o OrderByIdDesc(rows \ {top})

\* the engine rejects a negative LIMIT or OFFSET
SqlError == [error |-> "LIMIT and OFFSET must not be negative"]

\* LIMIT lim OFFSET off of an ordered row list
LimitOffset(rows, lim, off) == SubSeq(rows, off + 1, Min(off + lim, Len(rows)))

\* s LIKE p: % matches any run of characters, _ any one character
RECURSIVE Like(_, _)
Like(s, p) ==
    IF p = <<>> THEN s = <<>>
    ELSE IF Head(p) = "%"
         THEN Like(s, Tail(p)) \/ (s # <<>> /\ Like(Tail(s), p))
         ELSE /\ s # <<>>
              /\ Head(p) = "_" \/ Head(p) = Head(s)
              /\ Like(Tail(s), Tail(p))

\* s ILIKE p: LIKE without regard to case
ilike(s, p) == Like(toLowerCase(s), lowerChars(p))

\* or(ilike(name, %query%), ..., ilike(location, %query%))
searchCondition(row, query) ==
    LET pattern == <<"%">> \o chars(query) \o <<"%">>
    IN  \E f \in 1..Len(SearchFields) : ilike(row[SearchFields[f]], pattern)

Db_getCompanies(table, page, pageSize) ==
    LET total  == Cardinality(table)
        offset == (page - 1) * pageSize
    IN  IF offset < 0 \/ pageSize < 0
        THEN SqlError
        ELSE [companies |-> LimitOffset(OrderByIdDesc(table), pageSize, offset),
              total |-> total]

Db_getCompany(table, id) ==
    IF \E r \in table : r.id = id THEN CHOOSE r \in table : r.id = id ELSE Undefined

\* INSERT ... RETURNING: the serial sequence gives the next identifier
Db_createCompany(table, seq, insertCompany) ==
    LET company == Spread(insertCompany, [id |-> seq + 1])
    IN  [table |-> table \cup {company}, seq |-> seq + 1, result |-> company]

\* UPDATE ... SET ... WHERE id = ... RETURNING
Db_updateCompany(table, id, companyData) ==
    IF \E r \in table : r.id = id
    THEN LET old            == CHOOSE r \in table : r.id = id
             updatedCompany == Spread(old, companyData)
         IN  [table |-> (table \ {old}) \cup {updatedCompany}, result |-> updatedCompany]
    ELSE [table |-> table, result |-> Undefined]

\* DELETE ... WHERE id = ...; the method answers true whatever was deleted
Db_deleteCompany(table, id) ==
    [table |-> { r \in table : r.id # id }, result |-> TRUE]

Db_searchCompanies(table, query, page, pageSize) ==
    LET matching == { r \in table : searchCondition(r, query) }
        total    == Cardinality(matching)
        offset   == (page - 1) * pageSize
    IN  IF offset < 0 \/ pageSize < 0
        THEN SqlError
        ELSE [companies |-> LimitOffset(OrderByIdDesc(matching), pageSize, offset),
              total |-> total]

\* the first statement of getCompanies and of searchCompanies: the count of
\* the rows, or of the rows the search condition accepts
Db_countQuery(table, call) ==
    IF call.op = "getCompanies" THEN Cardinality(table)
    ELSE Cardinality({ r \in table : searchCondition(r, call.query) })

\* their second statement: the window of the rows, newest first
Db_windowQuery(table, call) ==
    LET rows   == IF call.op = "getCompanies" THEN table
                  ELSE { r \in table : searchCondition(r, call.query) }
        offset == (call.page - 1) * call.pageSize
    IN  LimitOffset(OrderByIdDesc(rows), call.pageSize, offset)

\* one INSERT statement with all rows; the sequence numbers them in order
RECURSIVE Db_insertRows(_, _, _)
Db_insertRows(table, seq, insertCompanies) ==
    IF insertCompanies = <<>>
    THEN [table |-> table, seq |-> seq, created |-> <<>>]
    ELSE LET one  == Db_createCompany(table, seq, Head(insertCompanies))
             rest == Db_insertRows(one.table, one.seq, Tail(insertCompanies))
         IN  [table |-> rest.table, seq |-> rest.seq,
              created |-> <<one.result>> \o rest.created]

Db_createManyCompanies(table, seq, insertCompanies) ==
    IF Len(insertCompanies) = 0
    THEN [table |-> table, seq |-> seq, result |-> 0, created |-> <<>>]
    ELSE LET r == Db_insertRows(table, seq, insertCompanies)
         IN  [table |-> r.table, seq |-> r.seq, result |-> Len(r.created),
              created |-> r.created]

--------------------------------------------------------------------------
(* HTTP route layer over the storage singleton (run-frontend.js) *)

\* parseInt(x) || dflt: NaN and 0 are falsy
OrDefault(x, dflt) == IF x.nan \/ x.n = 0 THEN dflt ELSE x.n

DefaultPage == 1
DefaultPageSize == 10

\* what parseInt can return for the page and pageSize query parameters
QueryPages     == { NaN, Num(0), Num(0 - 1), Num(2) }
QueryPageSizes == { NaN, Num(1) }
\* the search parameter: missing or empty, or a search string
QuerySearches  == { "", "TECH" }

\* request bodies of PUT /companies/:id as insertCompanySchema.partial().parse
\* judges them: accepted (with the parsed data) or rejected with a ZodError
PutBodies == { [ok |-> TRUE, data |-> d] : d \in PartialCompanies } \cup { [ok |-> FALSE] }

--------------------------------------------------------------------------
(* apiRequest of the mock client (queryClient.ts). A url is [path, id] for    *)
(* /api/companies/<id>, [path, params] for the collection with its query     *)
(* parameters, and [path] for the other paths; numbers in params stand for    *)
(* their decimal texts.                                                       *)

\* new MockResponse(data, status)
MockResponse(data, status) ==
    [data |-> data, status |-> status, ok |-> status >= 200 /\ status < 300]

\* apiRequest(method, url, data): the new localStorage item and the response;
\* response NoResult stands for result === undefined
Mock_apiRequest(ls, method, url, data) ==
    LET get(params, key, dflt) == IF key \in DOMAIN params THEN params[key] ELSE dflt
        notFound   == MockResponse([error |-> "Company not found"], 404)
        unhandled  == MockResponse([error |-> "Unhandled mock endpoint"], 404)
        answer(r)  == [ls |-> r.ls,
                       response |-> IF r.result = Undefined THEN unhandled
                                    ELSE MockResponse(r.result, 200)]
    IN  IF url.path = "/api/companies" /\ "id" \in DOMAIN url
        THEN CASE method = "GET" ->
                    LET r == Mock_getCompany(ls, url.id)
                    IN  IF r.result = Undefined THEN [ls |-> r.ls, response |-> notFound]
                        ELSE answer(r)
               [] method = "PUT" ->
                    LET r == Mock_updateCompany(ls, url.id, data)
                    IN  IF r.result = Undefined THEN [ls |-> r.ls, response |-> notFound]
                        ELSE answer(r)
               [] method = "DELETE" ->
                    LET r == Mock_deleteCompany(ls, url.id)
                    IN  [ls |-> r.ls, response |-> MockResponse([success |-> r.result], 200)]
               [] OTHER -> [ls |-> ls, response |-> unhandled]
        ELSE IF url.path = "/api/companies"
        THEN CASE method = "GET" ->
                    LET page     == get(url.params, "page", DefaultPage)
                        pageSize == get(url.params, "pageSize", DefaultPageSize)
                        search   == get(url.params, "search", "")
                    IN  IF search # ""
                        THEN answer(Mock_searchCompanies(ls, search, page, pageSize))
                        ELSE answer(Mock_getCompanies(ls, page, pageSize))
               [] method = "POST" -> answer(Mock_createCompany(ls, data))
               [] OTHER -> [ls |-> ls, response |-> unhandled]
        ELSE IF url.path = "/api/import" /\ method = "POST"
        THEN LET r == Mock_importCompanies(ls, data)
             IN  [ls |-> r.ls,
                  response |-> MockResponse([success |-> TRUE, count |-> r.result], 200)]
        ELSE IF url.path = "/api/send-email" /\ method = "POST"
        THEN [ls |-> ls, response |-> MockResponse([success |-> TRUE], 200)]
        ELSE [ls |-> ls, response |-> unhandled]

\* the properties of insertCompanySchema
CompanyKeys ==
    { "name", "contact", "email", "phone", "industry", "location", "employees",
      "revenue", "status", "lastContact" }

\* request bodies of POST /companies: a complete one, one with a property the
\* schema does not know, one without email, the empty object
PostBodies ==
    { NewCompany,
      Spread(NewCompany, [role |-> "admin"]),
      [ f \in CompanyKeys \ {"email"} |-> NewCompany[f] ],
      <<>> }

\* insertCompanySchema.parse(body): throws a ZodError when a property is
\* missing, else returns the properties of the schema and drops the others
insertCompanySchema_parse(body) ==
    IF CompanyKeys \subseteq DOMAIN body
    THEN [ok |-> TRUE, data |-> [ f \in CompanyKeys |-> body[f] ]]
    ELSE [ok |-> FALSE]

\* faulty variant of POST /companies: stores the body before validating it
Route_postCompany_createFirst(map, cur, body) ==
    LET r == Mem_createCompany(map, cur, body)
    IN  IF insertCompanySchema_parse(body).ok
        THEN [map |-> r.map, cur |-> r.cur, status |-> 201, result |-> r.result]
        ELSE [map |-> r.map, cur |-> r.cur, status |-> 400, result |-> Undefined]

\* POST /companies: the new map, the new counter, the status and the record
Route_postCompany(map, cur, body) ==
    LET parsed == insertCompanySchema_parse(body)
    IN  IF ~parsed.ok
        THEN [map |-> map, cur |-> cur, status |-> 400, result |-> Undefined]
        ELSE LET r == Mem_createCompany(map, cur, parsed.data)
             IN  [map |-> r.map, cur |-> r.cur, status |-> 201, result |-> r.result]

--------------------------------------------------------------------------
(* POST /send-email (run-frontend.js). The content of a message is a         *)
(* sequence of words; the words "${company}", "${contact}" and "${email}"    *)
(* are the placeholders.                                                      *)

Template == <<"Dear", "${contact}", "of", "${company}", "at", "${email}", "or",
              "${contact}">>

\* the id lists of the request bodies
IdLists ==
    {<<>>} \cup { <<i>> : i \in Ids } \cup { <<i, j>> : i \in Ids, j \in Ids }

\* request bodies that emailSchema accepts: sendToSelected and companyIds are
\* optional
GoodEmailBodies ==
    LET base == [subject |-> "Hello", template |-> "custom", content |-> Template]
    IN  { base, Spread(base, [sendToSelected |-> TRUE]) }
        \cup { Spread(base, [companyIds |-> ids]) : ids \in {<<>>, <<MaxId + 1>>} }
        \cup { Spread(base, [sendToSelected |-> FALSE, companyIds |-> ids]) :
                  ids \in {<<>>, <<1>>, <<MaxId + 1>>} }
        \cup { Spread(base, [sendToSelected |-> TRUE, companyIds |-> ids]) :
                  ids \in IdLists }

\* request bodies that emailSchema rejects: an empty subject, an empty
\* content, no template, no content
BadEmailBodies ==
    { [subject |-> "", template |-> "custom", content |-> Template,
       sendToSelected |-> TRUE, companyIds |-> <<1>>],
      [subject |-> "Hello", template |-> "custom", content |-> <<>>],
      [subject |-> "Hello", content |-> Template, sendToSelected |-> FALSE],
      [subject |-> "Hello", template |-> "custom", sendToSelected |-> TRUE,
       companyIds |-> <<2>>] }

EmailBodies == GoodEmailBodies \cup BadEmailBodies

\* what the mail service does during one request: whether getTestTransporter
\* resolves, and the positions in companiesForEmail whose sendMail rejects
Transports ==
    { [ok |-> FALSE, rejected |-> {}] }
    \cup { [ok |-> TRUE, rejected |-> s] : s \in { {}, {1}, {2} } }

\* emailSchema.parse does not throw
emailSchema_accepts(body) ==
    /\ "subject" \in DOMAIN body /\ body.subject # ""
    /\ "template" \in DOMAIN body
    /\ "content" \in DOMAIN body /\ body.content # <<>>

\* sendToSelected && companyIds && companyIds.length > 0
Route_sendToSelected_anyIds(emailData) ==
    /\ "companyIds" \in DOMAIN emailData
    /\ Len(emailData.companyIds) > 0

Route_sendToSelected(emailData) ==
    /\ "sendToSelected" \in DOMAIN emailData /\ emailData.sendToSelected
    /\ "companyIds" \in DOMAIN emailData
    /\ Len(emailData.companyIds) > 0

\* faulty variant of the lookup loop: gives up at the first id without a record
RECURSIVE Route_lookUp_stopAtMissing(_, _)
Route_lookUp_stopAtMissing(map, companyIds) ==
    IF companyIds = <<>> THEN <<>>
    ELSE LET company == Mem_getCompany(map, Head(companyIds))
         IN  IF company # Undefined
             THEN <<company>> \o Route_lookUp_stopAtMissing(map, Tail(companyIds))
             ELSE <<>>

\* for (const id of emailData.companyIds): the records found, in list order
RECURSIVE Route_lookUp(_, _)
Route_lookUp(map, companyIds) ==
    IF companyIds = <<>> THEN <<>>
    ELSE LET company == Mem_getCompany(map, Head(companyIds))
             rest    == Route_lookUp(map, Tail(companyIds))
         IN  IF company # Undefined THEN <<company>> \o rest ELSE rest

\* companiesForEmail
Route_companiesForEmail(map, emailData) ==
    IF Route_sendToSelected(emailData)
    THEN Route_lookUp(map, emailData.companyIds)
    ELSE Mem_getCompanies(map, 1, 100).companies

\* content.replace(/placeholder/g, value)
replace(content, placeholder, value) ==
    [ i \in 1..Len(content) |-> IF content[i] = placeholder THEN value ELSE content[i] ]

\* the argument of transporter.sendMail for one company
Route_mail(emailData, company) ==
    [ to      |-> company.email,
      subject |-> emailData.subject,
      html    |-> replace(replace(replace(emailData.content,
                                          "${company}", company.name),
                                  "${contact}", company.contact),
                          "${email}", company.email) ]

\* the handler: transporterOk tells whether getTestTransporter resolves,
\* rejected holds the positions in companiesForEmail whose sendMail rejects.
\* sent lists the messages handed to sendMail.
Route_sendEmail(map, body, transporterOk, rejected) ==
    IF ~emailSchema_accepts(body)
    THEN [status |-> 400, message |-> "Invalid email data", sent |-> <<>>]
    ELSE LET companiesForEmail == Route_companiesForEmail(map, body)
             n    == Len(companiesForEmail)
             sent == [ i \in 1..n |-> Route_mail(body, companiesForEmail[i]) ]
         IN  IF n = 0
             THEN [status |-> 400, message |-> "No companies to send emails to",
                   sent |-> <<>>]
             ELSE IF ~transporterOk
             THEN [status |-> 500, message |-> "Failed to send emails", sent |-> <<>>]
             ELSE IF \E i \in 1..n : i \in rejected
             THEN [status |-> 500, message |-> "Failed to send emails", sent |-> sent]
             ELSE [status |-> 200, message |-> "Emails sent to companies",
                   sent |-> sent,
                   details |-> [ i \in 1..n |-> [company |-> companiesForEmail[i].name,
                                                  messageId |-> i] ]]

--------------------------------------------------------------------------
(* POST /import (run-frontend.js): the rows of the first sheet, as            *)
(* sheet_to_json returns them: one object per row, keyed by the header cells. *)
(* A text cell is a string; an employees cell is [number |-> n] or            *)
(* [text |-> s], the two kinds of cell the code tells apart.                  *)

\* rows of an uploaded sheet
RowA       == [name |-> "A", contact |-> "B", email |-> "c@d.com"]
RowNoName  == [name |-> "", contact |-> "X", email |-> "y@z.com"]
RowAliases == [Company |-> "Nordwind", ContactPerson |-> "Ole Berg",
               Email |-> "ole@nordwind.no", PhoneNumber |-> "+47 22 00 00 00",
               Industry |-> "Shipping", Address |-> "Oslo",
               EmployeeCount |-> [number |-> 40], Revenue |-> "$3M",
               Status |-> "Pending", LastContact |-> "2024-02-11"]
RowManyEmployees == [name |-> "Zeta Group", contact |-> "Zoe", email |-> "zoe@zeta.org",
                     employees |-> [text |-> "many"]]
RowEmailOnly     == [email |-> "only@mail.com"]
RowNegative      == [name |-> "Zeta Group", contact |-> "Zoe", email |-> "zoe@zeta.org",
                     employees |-> [number |-> -5]]

SheetRows == {RowA, RowNoName, RowAliases, RowManyEmployees, RowEmailOnly, RowNegative}

\* the uploads: no file, a file XLSX.read throws on, sheets of up to two rows
Uploads ==
    { [kind |-> "none"], [kind |-> "unreadable"] }
    \cup { [kind |-> "sheet", data |-> <<>>] }
    \cup { [kind |-> "sheet", data |-> <<r>>] : r \in SheetRows }
    \cup { [kind |-> "sheet", data |-> <<r, s>>] : r \in SheetRows, s \in SheetRows }

\* what new Date().toISOString().split('T')[0] may return
Dates == { "2024-03-01", "2024-03-02" }

\* a || b || ... || dflt over the properties keys of record: the first one
\* that is present and not the empty string
RECURSIVE FirstTruthy(_, _, _)
FirstTruthy(record, keys, dflt) ==
    IF keys = <<>> THEN dflt
    ELSE IF Head(keys) \in DOMAIN record /\ record[Head(keys)] # ""
         THEN record[Head(keys)]
         ELSE FirstTruthy(record, Tail(keys), dflt)

\* the same for the employees cell: 0 and "" are falsy
RECURSIVE FirstTruthyCell(_, _, _)
FirstTruthyCell(record, keys, dflt) ==
    IF keys = <<>> THEN dflt
    ELSE IF /\ Head(keys) \in DOMAIN record
            /\ record[Head(keys)] \notin {[number |-> 0], [text |-> ""]}
         THEN record[Head(keys)]
         ELSE FirstTruthyCell(record, Tail(keys), dflt)

\* Number(text) and parseInt(text) for the texts of employees cells
NumberOfText == ("many" :> NaN) @@ ("" :> Num(0))
ParseIntOfText == ("many" :> NaN) @@ ("" :> NaN)

\* Number(cell)
Number(cell) ==
    IF "number" \in DOMAIN cell THEN Num(cell.number) ELSE NumberOfText[cell.text]

\* the object the handler builds from one row
Route_transformRow(record, today) ==
    [ name        |-> FirstTruthy(record, <<"name", "Name", "company", "Company">>, ""),
      contact     |-> FirstTruthy(record, <<"contact", "Contact", "contactPerson",
                                           "ContactPerson">>, ""),
      email       |-> FirstTruthy(record, <<"email", "Email">>, ""),
      phone       |-> FirstTruthy(record, <<"phone", "Phone", "phoneNumber",
                                           "PhoneNumber">>, ""),
      industry    |-> FirstTruthy(record, <<"industry", "Industry">>, ""),
      location    |-> FirstTruthy(record, <<"location", "Location", "address",
                                           "Address">>, ""),
      employees   |-> Number(FirstTruthyCell(record, <<"employees", "Employees",
                                 "employeeCount", "EmployeeCount">>, [number |-> 0])),
      revenue     |-> FirstTruthy(record, <<"revenue", "Revenue">>, ""),
      status      |-> FirstTruthy(record, <<"status", "Status">>, "Active"),
      lastContact |-> FirstTruthy(record, <<"lastContact", "LastContact",
                                           "last_contact">>, today) ]

\* insertCompanySchema.parse of such an object: its text fields are strings
\* whatever the row held, so it throws exactly when employees is not a number
insertCompanySchema_accepts(company) == ~company.employees.nan

\* the for loop over the rows: the accepted objects, in row order
RECURSIVE Route_validCompanies(_, _)
Route_validCompanies(data, today) ==
    IF data = <<>> THEN <<>>
    ELSE LET company == Route_transformRow(Head(data), today)
         IN  (IF insertCompanySchema_accepts(company)
              THEN << [company EXCEPT !.employees = company.employees.n] >>
              ELSE <<>>)
             \o Route_validCompanies(Tail(data), today)

--------------------------------------------------------------------------
(* processExcelFile (client import component): the sheet read with header: 1, *)
(* i.e. as arrays of cells. A row is a function from the positions that hold  *)
(* a cell to the cells; a position without a cell reads as undefined.         *)

\* the header rows as normalizeHeaders returns them
PlainHeaders == <<"name", "contact", "email">>
WideHeaders  == <<"Name", "contactPerson", "emailAddress", "employeeCount", "Status",
                  "notes">>

PlainRows == { <<"A", "B", "c@d.com">>, <<"", "X", "y@z.com">>, (3 :> "only@mail.com") }
WideRows  == { <<"Zeta Group", "Zoe", "zoe@zeta.org", [text |-> "many"], "", "vip">>,
               <<"Zeta Group", "Zoe", "zoe@zeta.org", [number |-> -5]>>,
               <<"Nordwind", "Ole Berg", "ole@nordwind.no", [number |-> 40], "Pending">> }

\* the files chosen: one XLSX.read throws on, and sheets of a header row and
\* up to two data rows
SheetsOf(headers, rows) ==
    { [kind |-> "sheet", headers |-> headers, rows |-> <<>>] }
    \cup { [kind |-> "sheet", headers |-> headers, rows |-> <<r>>] : r \in rows }
    \cup { [kind |-> "sheet", headers |-> headers, rows |-> <<r, s>>] : r \in rows, s \in rows }

ClientFiles ==
    { [kind |-> "unreadable"] }
    \cup SheetsOf(PlainHeaders, PlainRows) \cup SheetsOf(WideHeaders, WideRows)

\* the case labels of the switch and the property each one sets
HeaderCases ==
    << <<"name", "name">>,
       <<"contact", "contact">>,
       <<"contactname", "contact">>,
       <<"contactperson", "contact">>,
       <<"email", "email">>,
       <<"emailaddress", "email">>,
       <<"phone", "phone">>,
       <<"phonenumber", "phone">>,
       <<"industry", "industry">>,
       <<"sector", "industry">>,
       <<"location", "location">>,
       <<"address", "location">>,
       <<"employees", "employees">>,
       <<"employeecount", "employees">>,
       <<"employeenumber", "employees">>,
       <<"revenue", "revenue">>,
       <<"annualrevenue", "revenue">>,
       <<"status", "status">>,
       <<"companystatus", "status">>,
       <<"lastcontact", "lastContact">>,
       <<"lastcontactdate", "lastContact">> >>

\* the property the switch sets for header, "none" in the default case
FieldOfHeader(header) ==
    LET h == toLowerCase(header)
    IN  IF \E k \in 1..Len(HeaderCases) : chars(HeaderCases[k][1]) = h
        THEN HeaderCases[CHOOSE k \in 1..Len(HeaderCases) : chars(HeaderCases[k][1]) = h][2]
        ELSE "none"

\* what the switch assigns: String(value), or for employees the number, else
\* parseInt(String(value)) || 0
Client_cellValue(field, value) ==
    IF field = "employees"
    THEN IF "number" \in DOMAIN value THEN value.number
         ELSE OrDefault(ParseIntOfText[value.text], 0)
    ELSE value

\* normalizedHeaders.forEach from position index on
RECURSIVE Client_mapCells(_, _, _, _)
Client_mapCells(company, normalizedHeaders, row, index) ==
    IF index > Len(normalizedHeaders) THEN company
    ELSE LET field == FieldOfHeader(normalizedHeaders[index])
         IN  IF index \notin DOMAIN row \/ field = "none"
             THEN Client_mapCells(company, normalizedHeaders, row, index + 1)
             ELSE Client_mapCells(
                    Spread(company, field :> Client_cellValue(field, row[index])),
                    normalizedHeaders, row, index + 1)

\* !company.field
Client_lacks(company, field) ==
    \/ field \notin DOMAIN company
    \/ company[field] = (IF field = "employees" THEN 0 ELSE "")

\* the defaults filled in for missing fields
Client_withDefaults(company, today) ==
    LET dflt == [ phone |-> "N/A", industry |-> "Other", location |-> "Unknown",
                  employees |-> 0, revenue |-> "Unknown", status |-> "New",
                  lastContact |-> today ]
    IN  Spread(company,
               [ f \in { g \in DOMAIN dflt : Client_lacks(company, g) } |-> dflt[f] ])

\* the for loop over the rows: the companies pushed, in row order
RECURSIVE Client_companies(_, _, _)
Client_companies(normalizedHeaders, rows, today) ==
    IF rows = <<>> THEN <<>>
    ELSE LET row     == Head(rows)
             company == Client_mapCells(<<>>, normalizedHeaders, row, 1)
             rest    == Client_companies(normalizedHeaders, Tail(rows), today)
         IN  IF DOMAIN row = {} THEN rest
             ELSE IF \/ Client_lacks(company, "name")
                     \/ Client_lacks(company, "contact")
                     \/ Client_lacks(company, "email")
                  THEN rest
                  ELSE <<Client_withDefaults(company, today)>> \o rest

--------------------------------------------------------------------------
(* Which deployment a step belongs to *)

OnMem  == variant = "mem" /\ UNCHANGED <<variant, mockVars, dbVars, procVars>>
OnMock == variant = "mock" /\ UNCHANGED <<variant, memVars, dbVars, procVars>>
OnPair == variant = "pair" /\ UNCHANGED <<variant, mockVars, procVars>>

--------------------------------------------------------------------------
(* MemStorage calls *)

MemGetCompanies(page, pageSize) ==
    /\ OnMem
    /\ memLast' = [op |-> "getCompanies", page |-> page, pageSize |-> pageSize,
                   result |-> Mem_getCompanies(companiesMap, page, pageSize)]
    /\ UNCHANGED <<companiesMap, currentCompanyId, memAssigned>>

MemGetCompany(id) ==
    /\ OnMem
    /\ memLast' = [op |-> "getCompany", id |-> id,
                   result |-> Mem_getCompany(companiesMap, id)]
    /\ UNCHANGED <<companiesMap, currentCompanyId, memAssigned>>

MemCreateCompany(insertCompany) ==
    /\ OnMem
    /\ currentCompanyId <= MaxId
    /\ LET r == Mem_createCompany(companiesMap, currentCompanyId, insertCompany)
       IN  /\ companiesMap' = r.map
           /\ currentCompanyId' = r.cur
           /\ memAssigned' = memAssigned \cup {r.result.id}
           /\ memLast' = [op |-> "createCompany", ids |-> <<r.result.id>>,
                          before |-> memAssigned, result |-> r.result]

MemUpdateCompany(id, companyData) ==
    /\ OnMem
    /\ LET r == Mem_updateCompany(companiesMap, id, companyData)
       IN  /\ companiesMap' = r.map
           /\ memLast' = [op |-> "updateCompany", id |-> id, data |-> companyData,
                          result |-> r.result]
    /\ UNCHANGED <<currentCompanyId, memAssigned>>

MemDeleteCompany(id) ==
    /\ OnMem
    /\ LET r == Mem_deleteCompany(companiesMap, id)
       IN  /\ companiesMap' = r.map
           /\ memLast' = [op |-> "deleteCompany", id |-> id, result |-> r.result]
    /\ UNCHANGED <<currentCompanyId, memAssigned>>

MemSearchCompanies(query, page, pageSize) ==
    /\ OnMem
    /\ memLast' = [op |-> "searchCompanies", query |-> query, page |-> page,
                   pageSize |-> pageSize,
                   result |-> Mem_searchCompanies(companiesMap, query, page, pageSize)]
    /\ UNCHANGED <<companiesMap, currentCompanyId, memAssigned>>

\* createManyCompanies while the identifiers it assigns stay within maxId
MemCreateManyCompaniesWithin(insertCompanies, maxId) ==
    /\ OnMem
    /\ currentCompanyId + Len(insertCompanies) <= maxId + 1
    /\ LET r == Mem_createManyCompanies(companiesMap, currentCompanyId, insertCompanies)
       IN  /\ companiesMap' = r.map
           /\ currentCompanyId' = r.cur
           /\ memAssigned' = memAssigned \cup IdsOf(r.created)
           /\ memLast' = [op |-> "createManyCompanies", list |-> insertCompanies,
                          ids |-> [i \in 1..Len(r.created) |-> r.created[i].id],
                          before |-> memAssigned, result |-> r.result]

MemCreateManyCompanies(insertCompanies) ==
    MemCreateManyCompaniesWithin(insertCompanies, MaxId)

--------------------------------------------------------------------------
(* Route handlers on MemStorage *)

\* GET /companies?page&pageSize&search
RouteGetCompanies(qPage, qPageSize, searchQuery) ==
    /\ OnMem
    /\ LET page     == OrDefault(qPage, DefaultPage)
           pageSize == OrDefault(qPageSize, DefaultPageSize)
           result   == IF searchQuery # ""
                       THEN Mem_searchCompanies(companiesMap, searchQuery, page, pageSize)
                       ELSE Mem_getCompanies(companiesMap, page, pageSize)
       IN  memLast' = [op |-> "GET /companies", page |-> page, pageSize |-> pageSize,
                      query |-> searchQuery, result |-> result,
                      status |-> 200, body |-> result]
    /\ UNCHANGED <<companiesMap, currentCompanyId, memAssigned>>

\* PUT /companies/:id
RoutePutCompany(id, body) ==
    /\ OnMem
    /\ IF ~body.ok
       THEN /\ memLast' = [op |-> "PUT /companies/:id", id |-> id, called |-> FALSE,
                           body |-> body, status |-> 400]
            /\ UNCHANGED companiesMap
       ELSE LET r == Mem_updateCompany(companiesMap, id, body.data)
            IN  /\ companiesMap' = r.map
                /\ memLast' = [op |-> "PUT /companies/:id", id |-> id, called |-> TRUE,
                               body |-> body, data |-> body.data, result |-> r.result,
                               status |-> IF r.result = Undefined THEN 404 ELSE 200]
    /\ UNCHANGED <<currentCompanyId, memAssigned>>

\* POST /import
RouteImport(file, today) ==
    /\ OnMem
    /\ IF file.kind = "none"
       THEN /\ memLast' = [op |-> "POST /import", file |-> file, status |-> 400,
                           created |-> <<>>]
            /\ UNCHANGED <<companiesMap, currentCompanyId, memAssigned>>
       ELSE IF file.kind = "unreadable"
       THEN /\ memLast' = [op |-> "POST /import", file |-> file, status |-> 500,
                           created |-> <<>>]
            /\ UNCHANGED <<companiesMap, currentCompanyId, memAssigned>>
       ELSE LET companies == Route_validCompanies(file.data, today)
                r == Mem_createManyCompanies(companiesMap, currentCompanyId, companies)
            IN  /\ currentCompanyId + Len(companies) <= MaxBulkId + 1
                /\ companiesMap' = r.map
                /\ currentCompanyId' = r.cur
                /\ memAssigned' = memAssigned \cup IdsOf(r.created)
                /\ memLast' = [op |-> "POST /import", file |-> file, today |-> today,
                               status |-> 201, recordsAdded |-> r.result,
                               created |-> r.created]

--------------------------------------------------------------------------
(* mockDataService calls *)

MockGetCompanies(page, pageSize) ==
    /\ OnMock
    /\ LET r == Mock_getCompanies(localStorage, page, pageSize)
       IN  /\ localStorage' = r.ls
           /\ mockLast' = [op |-> "getCompanies", page |-> page,
                           pageSize |-> pageSize, result |-> r.result]
    /\ UNCHANGED mockAssigned

MockGetCompany(id) ==
    /\ OnMock
    /\ LET r == Mock_getCompany(localStorage, id)
       IN  /\ localStorage' = r.ls
           /\ mockLast' = [op |-> "getCompany", id |-> id, result |-> r.result]
    /\ UNCHANGED mockAssigned

MockCreateCompany(company) ==
    /\ OnMock
    /\ LET r == Mock_createCompany(localStorage, company)
       IN
        /\ r.result.id <= MaxId
        /\ localStorage' = r.ls
        /\ mockAssigned' = mockAssigned \cup {r.result.id}
        /\ mockLast' = [op |-> "createCompany", ids |-> <<r.result.id>>,
                        before |-> mockAssigned, result |-> r.result]

MockUpdateCompany(id, companyData) ==
    /\ OnMock
    /\ LET r == Mock_updateCompany(localStorage, id, companyData)
       IN  /\ localStorage' = r.ls
           /\ mockLast' = [op |-> "updateCompany", id |-> id, data |-> companyData,
                           result |-> r.result]
    /\ UNCHANGED mockAssigned

MockDeleteCompany(id) ==
    /\ OnMock
    /\ LET r == Mock_deleteCompany(localStorage, id)
       IN  /\ localStorage' = r.ls
           /\ mockLast' = [op |-> "deleteCompany", id |-> id, result |-> r.result]
    /\ UNCHANGED mockAssigned

MockSearchCompanies(query, page, pageSize) ==
    /\ OnMock
    /\ LET r == Mock_searchCompanies(localStorage, query, page, pageSize)
       IN  /\ localStorage' = r.ls
           /\ mockLast' = [op |-> "searchCompanies", query |-> query, page |-> page,
                           pageSize |-> pageSize, result |-> r.result]
    /\ UNCHANGED mockAssigned

\* importCompanies while the identifiers it assigns stay within maxId
MockImportCompaniesWithin(companies, maxId) ==
    /\ OnMock
    /\ LET r == Mock_importCompanies(localStorage, companies)
       IN
        /\ \A i \in 1..Len(r.created) : r.created[i].id <= maxId
        /\ localStorage' = r.ls
        /\ mockAssigned' = mockAssigned \cup IdsOf(r.created)
        /\ mockLast' = [op |-> "importCompanies", list |-> companies,
                        ids |-> [i \in 1..Len(r.created) |-> r.created[i].id],
                        before |-> mockAssigned, result |-> r.result]

MockImportCompanies(companies) ==
    MockImportCompaniesWithin(companies, MaxId)

\* one apiRequest of the mock client
ApiRequest(method, url, data) ==
    /\ OnMock
    /\ LET r == Mock_apiRequest(localStorage, method, url, data)
       IN  /\ r.ls.present => Len(r.ls.text) <= MaxId
           /\ localStorage' = r.ls
           /\ mockAssigned' = mockAssigned \cup IdsOf(loadCompanies(r.ls).companies)
           /\ mockLast' = [op |-> "apiRequest", method |-> method, url |-> url,
                           data |-> data, response |-> r.response]

\* POST /companies
RoutePostCompany(body) ==
    /\ OnMem
    /\ currentCompanyId <= MaxId
    /\ LET r == Route_postCompany(companiesMap, currentCompanyId, body)
       IN  /\ companiesMap' = r.map
           /\ currentCompanyId' = r.cur
           /\ memAssigned' = memAssigned \cup IdsOf(r.map)
           /\ memLast' = [op |-> "POST /companies", body |-> body,
                          status |-> r.status, result |-> r.result]

\* POST /send-email
RouteSendEmail(body, transporterOk, rejected) ==
    /\ OnMem
    /\ LET r == Route_sendEmail(companiesMap, body, transporterOk, rejected)
       IN  memLast' = [op |-> "POST /send-email", body |-> body,
                       transporterOk |-> transporterOk, rejected |-> rejected,
                       response |-> r]
    /\ UNCHANGED <<companiesMap, currentCompanyId, memAssigned>>

\* processExcelFile on a chosen file; the companies go to the mock service
\* through apiRequest("POST", "/api/import", companies)
ClientImport(file, today) ==
    /\ OnMock
    /\ IF file.kind = "unreadable"
       THEN /\ mockLast' = [op |-> "processExcelFile", file |-> file,
                            outcome |-> "Import Failed", created |-> <<>>]
            /\ UNCHANGED <<localStorage, mockAssigned>>
       ELSE IF 1 + Len(file.rows) < 2
       THEN /\ mockLast' = [op |-> "processExcelFile", file |-> file,
                            outcome |-> "Import Failed",
                            message |-> "File contains no data or missing headers",
                            created |-> <<>>]
            /\ UNCHANGED <<localStorage, mockAssigned>>
       ELSE LET companies == Client_companies(file.headers, file.rows, today)
            IN  IF Len(companies) = 0
                THEN /\ mockLast' = [op |-> "processExcelFile", file |-> file,
                                     outcome |-> "Import Failed",
                                     message |-> "No valid company data found in file",
                                     created |-> <<>>]
                     /\ UNCHANGED <<localStorage, mockAssigned>>
                ELSE LET r == Mock_importCompanies(localStorage, companies)
                     IN  /\ \A i \in 1..Len(r.created) : r.created[i].id <= MaxBulkId
                         /\ localStorage' = r.ls
                         /\ mockAssigned' = mockAssigned \cup IdsOf(r.created)
                         /\ mockLast' = [op |-> "processExcelFile", file |-> file,
                                         today |-> today,
                                         outcome |-> "Import Successful",
                                         count |-> Len(companies),
                                         response |-> [status |-> 200,
                                                       data |-> [success |-> TRUE,
                                                                 count |-> r.result]],
                                         created |-> r.created]

--------------------------------------------------------------------------
(* MemStorage calls of request handlers that take turns at their awaits *)

\* a handler calls createManyCompanies
CreateManyCall(insertCompanies) ==
    /\ variant = "mem"
    /\ Len(inflight) < MaxInflight
    /\ inflight' = Append(inflight, [insertCompanies |-> insertCompanies,
                                     todo |-> insertCompanies, created |-> <<>>])
    /\ UNCHANGED <<variant, memVars, mockVars, dbVars, dataTable, importExcel, script>>

\* the k-th suspended createManyCompanies call runs up to its next await, or
\* returns its count when no record is left
CreateManyResume(k) ==
    /\ variant = "mem"
    /\ k \in 1..Len(inflight)
    /\ LET call == inflight[k]
           rest == SubSeq(inflight, 1, k - 1) \o SubSeq(inflight, k + 1, Len(inflight))
       IN  IF call.todo = <<>>
           THEN /\ inflight' = rest
                /\ memLast' = [op |-> "createManyCompanies",
                               list |-> call.insertCompanies,
                               created |-> call.created, result |-> Len(call.created)]
                /\ UNCHANGED <<companiesMap, currentCompanyId, memAssigned>>
           ELSE LET r == Mem_createManyStep(companiesMap, currentCompanyId, call)
                IN  /\ currentCompanyId <= MaxBulkId + 1
                    /\ companiesMap' = r.map
                    /\ currentCompanyId' = r.cur
                    /\ memAssigned' = memAssigned \cup IdsOf(r.call.created)
                    /\ inflight' = [inflight EXCEPT ![k] = r.call]
                    /\ UNCHANGED memLast
    /\ UNCHANGED <<variant, mockVars, dbVars, dataTable, importExcel, script>>

--------------------------------------------------------------------------
(* DatabaseStorage calls of request handlers that take turns at their awaits *)

OnDb == variant = "db" /\ UNCHANGED <<variant, memVars, mockVars, dataTable, importExcel, script>>

\* the getCompanies and searchCompanies calls handlers make
DbReads ==
    { [op |-> "getCompanies", page |-> 1, pageSize |-> 2] }
    \cup { [op |-> "searchCompanies", query |-> "acme", page |-> 1, pageSize |-> 2] }

\* a handler calls getCompanies or searchCompanies: the count query runs and
\* the call waits for its result
DbReadCall(call) ==
    /\ OnDb
    /\ Len(inflight) < MaxInflight
    /\ inflight' = Append(inflight, [call |-> call, total |-> Db_countQuery(dbTable, call)])
    /\ UNCHANGED dbVars

\* the k-th suspended call goes on: the window query runs and the call returns
DbReadResume(k) ==
    /\ OnDb
    /\ k \in 1..Len(inflight)
    /\ dbLast' = [op |-> inflight[k].call.op, call |-> inflight[k].call,
                  readFrom |-> dbTable,
                  result |-> [companies |-> Db_windowQuery(dbTable, inflight[k].call),
                              total |-> inflight[k].total]]
    /\ inflight' = SubSeq(inflight, 1, k - 1) \o SubSeq(inflight, k + 1, Len(inflight))
    /\ UNCHANGED <<dbTable, dbSeq>>

\* another request's createCompany commits
DbCreateCompany(insertCompany) ==
    /\ OnDb
    /\ dbSeq < MaxId
    /\ LET d == Db_createCompany(dbTable, dbSeq, insertCompany)
       IN  /\ dbTable' = d.table
           /\ dbSeq' = d.seq
           /\ dbLast' = [op |-> "createCompany", result |-> d.result]
    /\ UNCHANGED inflight

\* another request's deleteCompany commits
DbDeleteCompany(id) ==
    /\ OnDb
    /\ LET d == Db_deleteCompany(dbTable, id)
       IN  /\ dbTable' = d.table
           /\ dbLast' = [op |-> "deleteCompany", id |-> id, result |-> d.result]
    /\ UNCHANGED <<dbSeq, inflight>>

--------------------------------------------------------------------------
(* The DataTable component *)

\* const [pageSize] = useState(10)
DataTablePageSize == 10

\* the records of the backend when the table is mounted: two that the
\* search for "acme" finds and ten that it does not find
Stored == [acme |-> 2, other |-> 10]

\* what is typed into the search field
SearchTexts == { "", "acme" }

\* the component after its first render
DataTableMounted ==
    [page |-> 1, totalCompanies |-> 0, searchQuery |-> "", stored |-> Stored]

\* Math.ceil(totalCompanies / pageSize)
totalPages(totalCompanies) ==
    (totalCompanies + DataTablePageSize - 1) \div DataTablePageSize

\* the request fetchCompanies sends for the state it was started in
DataTable_fetch(dt) == [page |-> dt.page, search |-> dt.searchQuery]

\* data.total of GET /api/companies for that request
DataTable_total(stored, request) ==
    IF request.search = "" THEN stored.acme + stored.other ELSE stored.acme

\* a render with a changed page or searchQuery runs the effect again, which
\* starts fetchCompanies
DataTable_render(next) ==
    /\ dataTable' = next
    /\ IF next.page # dataTable.page \/ next.searchQuery # dataTable.searchQuery
       THEN /\ Len(inflight) < MaxInflight
            /\ inflight' = Append(inflight, DataTable_fetch(next))
       ELSE UNCHANGED inflight

OnTable == variant = "table" /\ UNCHANGED <<variant, memVars, mockVars, dbVars, importExcel, script>>

\* a click on a pagination link
HandlePageChange(newPage) ==
    /\ OnTable
    /\ IF newPage >= 1 /\ newPage <= totalPages(dataTable.totalCompanies)
       THEN DataTable_render([dataTable EXCEPT !.page = newPage])
       ELSE UNCHANGED <<dataTable, inflight>>

\* the search field's onChange
SearchChange(text) ==
    /\ OnTable
    /\ DataTable_render([dataTable EXCEPT !.searchQuery = text])

\* the search form is submitted
HandleSearch ==
    /\ OnTable
    /\ DataTable_render([dataTable EXCEPT !.page = 1])

\* the delete dialog is confirmed for a record of the given kind: the
\* backend removes it, the component drops it from the rows it shows
HandleDelete(kind) ==
    /\ OnTable
    /\ dataTable.stored[kind] > 0
    /\ dataTable' = [dataTable EXCEPT !.stored[kind] = @ - 1]
    /\ UNCHANGED inflight

\* the response of the k-th pending fetchCompanies arrives
FetchDone(k, ok) ==
    /\ OnTable
    /\ k \in 1..Len(inflight)
    /\ inflight' = SubSeq(inflight, 1, k - 1) \o SubSeq(inflight, k + 1, Len(inflight))
    /\ IF ok
       THEN dataTable' = [dataTable EXCEPT
                !.totalCompanies = DataTable_total(dataTable.stored, inflight[k])]
       ELSE UNCHANGED dataTable

--------------------------------------------------------------------------
(* The upload-based ImportExcel component *)

\* the component after its first render: no upload under way (at "idle"),
\* no interval timer running, no toast shown yet
ImportExcelMounted ==
    [isUploading |-> FALSE, uploadProgress |-> 0, intervals |-> 0,
     at |-> "idle", toast |-> "none"]

OnUpload == variant = "upload" /\ UNCHANGED <<variant, memVars, mockVars, dbVars, inflight, dataTable, script>>

\* a file is chosen (the input is disabled while isUploading): uploadFile
\* runs up to its await of fetch
UploadFile ==
    /\ OnUpload
    /\ ~importExcel.isUploading
    /\ importExcel.at = "idle"
    /\ importExcel.intervals < MaxIntervals
    /\ importExcel' = [importExcel EXCEPT !.isUploading = TRUE, !.uploadProgress = 0,
                                          !.intervals = @ + 1, !.at = "fetch"]

\* an interval timer fires
ProgressInterval ==
    /\ OnUpload
    /\ importExcel.intervals > 0
    /\ importExcel' = [importExcel EXCEPT !.uploadProgress = Min(@ + 10, 90)]

\* the setTimeout of the finally block is set; uploadFile returns
ImportExcel_finally(ie, toast) == [ie EXCEPT !.toast = toast, !.at = "timeout"]

\* fetch settles: with a response, the interval is cleared and the progress
\* set to 100 before the body is awaited; rejected, catch and finally run
FetchSettles(fulfilled, responseOk) ==
    /\ OnUpload
    /\ importExcel.at = "fetch"
    /\ importExcel' =
         IF fulfilled
         THEN [importExcel EXCEPT !.intervals = @ - 1, !.uploadProgress = 100,
                                  !.at = IF responseOk THEN "result" ELSE "errorData"]
         ELSE ImportExcel_finally(importExcel, "Import Failed")

\* response.json() settles, for the result or for the error's message
JsonSettles(fulfilled) ==
    /\ OnUpload
    /\ importExcel.at \in {"result", "errorData"}
    /\ importExcel' =
         IF fulfilled /\ importExcel.at = "result"
         THEN ImportExcel_finally(importExcel, "Import Successful")
         ELSE ImportExcel_finally(importExcel, "Import Failed")

\* the setTimeout callback of the finally block runs
ResetTimeout ==
    /\ OnUpload
    /\ importExcel.at = "timeout"
    /\ importExcel' = [importExcel EXCEPT !.isUploading = FALSE, !.uploadProgress = 0,
                                          !.at = "idle"]

--------------------------------------------------------------------------
(* The run-frontend script *)

RoutesFile   == "server/routes.ts"
FrontendFile == "server/routes.ts.frontend"
OriginalFile == "server/routes.ts.original"

\* the texts server/routes.ts is edited to
RoutesTexts == { "routes v1", "routes v2", "routes v3" }

\* a checkout before the script ever ran: files maps the paths that exist to
\* their content; before holds what routes.ts held when the run under way
\* started; last tells what happened last
ScriptNotRun ==
    [files  |-> (RoutesFile :> "routes v1") @@ (FrontendFile :> "frontend routes"),
     at     |-> "idle",
     before |-> "routes v1",
     last   |-> "none"]

existsSync(files, file) == file \in DOMAIN files

copyFileSync(files, src, dest) == (dest :> files[src]) @@ files

\* the script is started: it exits with 1 without the frontend routes file;
\* otherwise it backs routes.ts up unless a backup exists, switches routes.ts
\* to the frontend version and waits in execSync for the dev server
RunFrontend ==
    /\ variant = "script"
    /\ script.at = "idle"
    /\ IF ~existsSync(script.files, FrontendFile)
       THEN script' = [script EXCEPT !.last = "exit 1"]
       ELSE LET backedUp == IF ~existsSync(script.files, OriginalFile)
                            THEN copyFileSync(script.files, RoutesFile, OriginalFile)
                            ELSE script.files
            IN  script' = [script EXCEPT
                    !.files  = copyFileSync(backedUp, FrontendFile, RoutesFile),
                    !.at     = "execSync",
                    !.before = script.files[RoutesFile],
                    !.last   = "started"]
    /\ UNCHANGED <<variant, memVars, mockVars, dbVars, inflight, dataTable, importExcel>>

\* the dev server exits, execSync returns or throws: the finally block runs
DevServerExits(threw) ==
    /\ variant = "script"
    /\ script.at = "execSync"
    /\ script' = [script EXCEPT
            !.files = IF existsSync(script.files, OriginalFile)
                      THEN copyFileSync(script.files, OriginalFile, RoutesFile)
                      ELSE script.files,
            !.at    = "idle",
            !.last  = IF threw THEN "run failed" ELSE "run ended"]
    /\ UNCHANGED <<variant, memVars, mockVars, dbVars, inflight, dataTable, importExcel>>

\* between two runs somebody edits server/routes.ts
EditRoutes(text) ==
    /\ variant = "script"
    /\ script.at = "idle"
    /\ script.files[RoutesFile] # text
    /\ script' = [script EXCEPT !.files = (RoutesFile :> text) @@ script.files,
                                !.last = "edited"]
    /\ UNCHANGED <<variant, memVars, mockVars, dbVars, inflight, dataTable, importExcel>>

\* between two runs the frontend routes file is moved away or put back
MoveFrontendFile ==
    /\ variant = "script"
    /\ script.at = "idle"
    /\ script' = [script EXCEPT
            !.files = IF existsSync(script.files, FrontendFile)
                      THEN [f \in DOMAIN script.files \ {FrontendFile} |-> script.files[f]]
                      ELSE (FrontendFile :> "frontend routes") @@ script.files,
            !.last  = "moved"]
    /\ UNCHANGED <<variant, memVars, mockVars, dbVars, inflight, dataTable, importExcel>>

--------------------------------------------------------------------------
(* The same call on MemStorage and on DatabaseStorage, side by side *)

PairStep(call, mem, db) ==
    /\ memLast' = [call EXCEPT !.result = mem.result]
    /\ dbLast' = [call EXCEPT !.result = db.result]

PairGetCompanies(page, pageSize) ==
    /\ OnPair
    /\ PairStep([op |-> "getCompanies", page |-> page, pageSize |-> pageSize, result |-> 0],
                [result |-> Mem_getCompanies(companiesMap, page, pageSize)],
                [result |-> Db_getCompanies(dbTable, page, pageSize)])
    /\ UNCHANGED <<companiesMap, currentCompanyId, memAssigned, dbTable, dbSeq>>

PairGetCompany(id) ==
    /\ OnPair
    /\ PairStep([op |-> "getCompany", id |-> id, result |-> 0],
                [result |-> Mem_getCompany(companiesMap, id)],
                [result |-> Db_getCompany(dbTable, id)])
    /\ UNCHANGED <<companiesMap, currentCompanyId, memAssigned, dbTable, dbSeq>>

PairSearchCompanies(query, page, pageSize) ==
    /\ OnPair
    /\ PairStep([op |-> "searchCompanies", query |-> query, page |-> page,
                 pageSize |-> pageSize, result |-> 0],
                [result |-> Mem_searchCompanies(companiesMap, query, page, pageSize)],
                [result |-> Db_searchCompanies(dbTable, query, page, pageSize)])
    /\ UNCHANGED <<companiesMap, currentCompanyId, memAssigned, dbTable, dbSeq>>

PairCreateCompany(insertCompany) ==
    /\ OnPair
    /\ currentCompanyId <= MaxId
    /\ LET m == Mem_createCompany(companiesMap, currentCompanyId, insertCompany)
           d == Db_createCompany(dbTable, dbSeq, insertCompany)
       IN  /\ PairStep([op |-> "createCompany", result |-> 0], m, d)
           /\ companiesMap' = m.map
           /\ currentCompanyId' = m.cur
           /\ memAssigned' = memAssigned \cup {m.result.id}
           /\ dbTable' = d.table
           /\ dbSeq' = d.seq

PairCreateManyCompaniesWithin(insertCompanies, maxId) ==
    /\ OnPair
    /\ currentCompanyId + Len(insertCompanies) <= maxId + 1
    /\ LET m == Mem_createManyCompanies(companiesMap, currentCompanyId, insertCompanies)
           d == Db_createManyCompanies(dbTable, dbSeq, insertCompanies)
       IN  /\ PairStep([op |-> "createManyCompanies", list |-> insertCompanies,
                        result |-> 0], m, d)
           /\ companiesMap' = m.map
           /\ currentCompanyId' = m.cur
           /\ memAssigned' = memAssigned \cup IdsOf(m.created)
           /\ dbTable' = d.table
           /\ dbSeq' = d.seq

PairCreateManyCompanies(insertCompanies) ==
    PairCreateManyCompaniesWithin(insertCompanies, MaxId)

PairUpdateCompany(id, companyData) ==
    /\ OnPair
    /\ LET m == Mem_updateCompany(companiesMap, id, companyData)
           d == Db_updateCompany(dbTable, id, companyData)
       IN  /\ PairStep([op |-> "updateCompany", id |-> id, result |-> 0], m, d)
           /\ companiesMap' = m.map
           /\ dbTable' = d.table
    /\ UNCHANGED <<currentCompanyId, memAssigned, dbSeq>>

PairDeleteCompany(id) ==
    /\ OnPair
    /\ LET m == Mem_deleteCompany(companiesMap, id)
           d == Db_deleteCompany(dbTable, id)
       IN  /\ PairStep([op |-> "deleteCompany", id |-> id, result |-> 0], m, d)
           /\ companiesMap' = m.map
           /\ dbTable' = d.table
    /\ UNCHANGED <<currentCompanyId, memAssigned, dbSeq>>

\* the status DELETE /companies/:id answers with, given what deleteCompany returned
DeleteStatus(success) == IF ~success THEN 404 ELSE 204

\* DELETE /companies/:id, served once by each storage implementation
PairRouteDeleteCompany(id) ==
    /\ OnPair
    /\ LET m == Mem_deleteCompany(companiesMap, id)
           d == Db_deleteCompany(dbTable, id)
       IN  /\ memLast' = [op |-> "DELETE /companies/:id", id |-> id,
                          existed |-> MapHas(companiesMap, id),
                          result |-> m.result, status |-> DeleteStatus(m.result)]
           /\ dbLast' = [op |-> "DELETE /companies/:id", id |-> id,
                         existed |-> (\E r \in dbTable : r.id = id),
                         result |-> d.result, status |-> DeleteStatus(d.result)]
           /\ companiesMap' = m.map
           /\ dbTable' = d.table
    /\ UNCHANGED <<currentCompanyId, memAssigned, dbSeq>>

--------------------------------------------------------------------------
(* Initial state: MemStorage constructed; the browser's localStorage has no *)
(* item yet; the table is empty, except where the two server stores are     *)
(* compared: there it holds the records MemStorage starts with              *)

DbSeeded == Db_createManyCompanies({}, 0, sampleCompanies)

InitFor(variants) ==
    /\ variant \in variants
    /\ companiesMap = MemConstructed.map
    /\ currentCompanyId = MemConstructed.cur
    /\ memAssigned = IdsOf(MemConstructed.created)
    /\ memLast = [op |-> "constructor"]
    /\ localStorage = NoItem
    /\ mockAssigned = {}
    /\ mockLast = [op |-> "none"]
    /\ dbTable = IF variant = "pair" THEN DbSeeded.table ELSE {}
    /\ dbSeq = IF variant = "pair" THEN DbSeeded.seq ELSE 0
    /\ dbLast = [op |-> "none"]
    /\ inflight = IF variant = "table" THEN <<DataTable_fetch(DataTableMounted)>> ELSE <<>>
    /\ dataTable = DataTableMounted
    /\ importExcel = ImportExcelMounted
    /\ script = ScriptNotRun

Init == InitFor({"mem", "mock"})

--------------------------------------------------------------------------
(* Spec: the calls that create, change, remove or look up one record *)

Next ==
    \/ \E id \in Ids : MemGetCompany(id)
    \/ \E c \in InsertCompanies : MemCreateCompany(c)
    \/ \E id \in Ids, d \in PartialCompanies : MemUpdateCompany(id, d)
    \/ \E id \in Ids : MemDeleteCompany(id)
    \/ \E list \in CompanyLists : MemCreateManyCompanies(list)
    \/ \E id \in Ids, body \in PutBodies : RoutePutCompany(id, body)
    \/ \E id \in Ids : MockGetCompany(id)
    \/ \E c \in InsertCompanies : MockCreateCompany(c)
    \/ \E id \in Ids, d \in PartialCompanies : MockUpdateCompany(id, d)
    \/ \E id \in Ids : MockDeleteCompany(id)
    \/ \E list \in CompanyLists : MockImportCompanies(list)

Spec == Init /\ [][Next]_vars

--------------------------------------------------------------------------
(* SpecList: the calls that list and search, over stores that grow and shrink *)

NextList ==
    \/ \E c \in InsertCompanies : MemCreateCompany(c)
    \/ \E id \in Ids : MemDeleteCompany(id)
    \/ \E id \in Ids : MemGetCompany(id)
    \/ \E page \in Pages, pageSize \in PageSizes : MemGetCompanies(page, pageSize)
    \/ \E q \in Queries, page \in Pages, pageSize \in PageSizes :
            MemSearchCompanies(q, page, pageSize)
    \/ \E qp \in QueryPages, qs \in QueryPageSizes, q \in QuerySearches :
            RouteGetCompanies(qp, qs, q)
    \/ \E c \in InsertCompanies : MockCreateCompany(c)
    \/ \E id \in Ids : MockDeleteCompany(id)
    \/ \E id \in Ids : MockGetCompany(id)
    \/ \E page \in Pages, pageSize \in PageSizes : MockGetCompanies(page, pageSize)
    \/ \E q \in Queries, page \in Pages, pageSize \in PageSizes :
            MockSearchCompanies(q, page, pageSize)

SpecList == Init /\ [][NextList]_vars

--------------------------------------------------------------------------
(* SpecPair: MemStorage and DatabaseStorage given the same calls *)

InitPair == InitFor({"pair"})

NextPair ==
    \/ \E page \in Pages, pageSize \in PageSizes : PairGetCompanies(page, pageSize)
    \/ \E id \in Ids : PairGetCompany(id)
    \/ \E q \in Queries, page \in Pages, pageSize \in PageSizes :
            PairSearchCompanies(q, page, pageSize)
    \/ \E c \in InsertCompanies : PairCreateCompany(c)
    \/ \E list \in CompanyLists : PairCreateManyCompanies(list)
    \/ \E id \in Ids, d \in PartialCompanies : PairUpdateCompany(id, d)
    \/ \E id \in Ids : PairDeleteCompany(id)
    \/ \E id \in Ids : PairRouteDeleteCompany(id)

SpecPair == InitPair /\ [][NextPair]_vars

--------------------------------------------------------------------------
(* SpecBulk: batches of different records on all three stores, with deletes *)

InitBulk == InitFor({"mem", "mock", "pair"})

NextBulk ==
    \/ \E list \in BulkLists : MemCreateManyCompaniesWithin(list, MaxBulkId)
    \/ \E id \in Ids : MemDeleteCompany(id)
    \/ \E list \in BulkLists : MockImportCompaniesWithin(list, MaxBulkId)
    \/ \E id \in Ids : MockDeleteCompany(id)
    \/ \E list \in BulkLists : PairCreateManyCompaniesWithin(list, MaxBulkId)
    \/ \E id \in Ids : PairDeleteCompany(id)

SpecBulk == InitBulk /\ [][NextBulk]_vars

--------------------------------------------------------------------------
(* SpecImport: spreadsheet imports, on the server and in the browser *)

NextImport ==
    \/ \E file \in Uploads, today \in Dates : RouteImport(file, today)
    \/ \E file \in ClientFiles, today \in Dates : ClientImport(file, today)

SpecImport == Init /\ [][NextImport]_vars

--------------------------------------------------------------------------
(* SpecEmail: the routes that validate a request body, over stores that grow *)
(* and shrink                                                                 *)

NextEmail ==
    \/ \E c \in InsertCompanies : MemCreateCompany(c)
    \/ \E id \in Ids : MemDeleteCompany(id)
    \/ \E body \in EmailBodies, t \in Transports :
            RouteSendEmail(body, t.ok, t.rejected)

SpecEmail == InitFor({"mem"}) /\ [][NextEmail]_vars

--------------------------------------------------------------------------
(* SpecValidate: the three routes that validate a request body *)

NextValidate ==
    \/ \E body \in PostBodies : RoutePostCompany(body)
    \/ \E id \in Ids, body \in PutBodies : RoutePutCompany(id, body)
    \/ \E id \in Ids : MemDeleteCompany(id)
    \/ \E body \in BadEmailBodies \cup { b \in GoodEmailBodies : "companyIds" \notin DOMAIN b },
          t \in Transports :
            RouteSendEmail(body, t.ok, t.rejected)

SpecValidate == InitFor({"mem"}) /\ [][NextValidate]_vars

--------------------------------------------------------------------------
(* SpecApi: the mock client's apiRequest, and the list route on MemStorage *)

NextApi ==
    \/ \E id \in Ids :
            ApiRequest("DELETE", [path |-> "/api/companies", id |-> id], <<>>)
    \/ \E id \in Ids :
            ApiRequest("PUT", [path |-> "/api/companies", id |-> id], [id |-> 1])
    \/ \E data \in { NewCompany, Spread(NewCompany, [id |-> 1]) } :
            ApiRequest("POST", [path |-> "/api/companies", params |-> <<>>], data)
    \/ \E list \in {<<>>, <<NewCompany>>} :
            ApiRequest("POST", [path |-> "/api/import"], list)

SpecApi == InitFor({"mock"}) /\ [][NextApi]_vars

--------------------------------------------------------------------------
(* SpecRead: the requests that read through apiRequest and through the list *)
(* route, over stores that grow and shrink                                   *)

NextRead ==
    \/ ApiRequest("POST", [path |-> "/api/companies", params |-> <<>>], NewCompany)
    \/ \E method \in {"GET", "DELETE"}, id \in Ids :
            ApiRequest(method, [path |-> "/api/companies", id |-> id], <<>>)
    \/ \E params \in { [page |-> 2, pageSize |-> 2], [search |-> ""],
                        [page |-> 1, pageSize |-> 2, search |-> "acme"] } :
            ApiRequest("GET", [path |-> "/api/companies", params |-> params], <<>>)
    \/ \E method \in {"GET", "PATCH"} :
            ApiRequest(method, [path |-> "/api/companies", params |-> <<>>], <<>>)
    \/ ApiRequest("POST", [path |-> "/api/send-email"], <<>>)
    \/ \E c \in InsertCompanies : MemCreateCompany(c)
    \/ \E id \in Ids : MemDeleteCompany(id)
    \/ \E qp \in QueryPages, qs \in QueryPageSizes, q \in QuerySearches :
            RouteGetCompanies(qp, qs, q)

SpecRead == Init /\ [][NextRead]_vars

--------------------------------------------------------------------------
(* SpecRace: createManyCompanies calls and createCompany calls on one        *)
(* MemStorage, taking turns at the awaits of the loop                        *)

NextRace ==
    \/ \E list \in BulkLists : CreateManyCall(list)
    \/ \E k \in 1..MaxInflight : CreateManyResume(k)
    \/ \E c \in InsertCompanies : MemCreateCompany(c)

SpecRace == InitFor({"mem"}) /\ [][NextRace]_vars

--------------------------------------------------------------------------
(* SpecDbRace: reads of DatabaseStorage while other requests create and      *)
(* delete records                                                            *)

NextDbRace ==
    \/ \E call \in DbReads : DbReadCall(call)
    \/ \E k \in 1..MaxInflight : DbReadResume(k)
    \/ \E c \in {NewCompany, OtherCompany} : DbCreateCompany(c)
    \/ \E id \in 1..MaxId : DbDeleteCompany(id)

SpecDbRace == InitFor({"db"}) /\ [][NextDbRace]_vars

--------------------------------------------------------------------------
(* SpecTable: the DataTable component in use *)

NextTable ==
    \/ \E newPage \in 0..3 : HandlePageChange(newPage)
    \/ \E text \in SearchTexts : SearchChange(text)
    \/ HandleSearch
    \/ \E kind \in {"acme", "other"} : HandleDelete(kind)
    \/ \E k \in 1..MaxInflight, ok \in BOOLEAN : FetchDone(k, ok)

SpecTable == InitFor({"table"}) /\ [][NextTable]_vars

--------------------------------------------------------------------------
(* SpecUpload: uploads through the ImportExcel component. Timers that are    *)
(* set fire, and a request or a body read that was started settles.          *)

NextUpload ==
    \/ UploadFile
    \/ ProgressInterval
    \/ \E fulfilled \in BOOLEAN, responseOk \in BOOLEAN : FetchSettles(fulfilled, responseOk)
    \/ \E fulfilled \in BOOLEAN : JsonSettles(fulfilled)
    \/ ResetTimeout

SpecUpload ==
    /\ InitFor({"upload"})
    /\ [][NextUpload]_vars
    /\ WF_vars(ProgressInterval)
    /\ WF_vars(\E fulfilled \in BOOLEAN, responseOk \in BOOLEAN : FetchSettles(fulfilled, responseOk))
    /\ WF_vars(\E fulfilled \in BOOLEAN : JsonSettles(fulfilled))
    /\ WF_vars(ResetTimeout)

--------------------------------------------------------------------------
(* SpecScript: runs of run-frontend, with edits of routes.ts in between *)

NextScript ==
    \/ RunFrontend
    \/ \E threw \in BOOLEAN : DevServerExits(threw)
    \/ \E text \in RoutesTexts : EditRoutes(text)
    \/ MoveFrontendFile

SpecScript == InitFor({"script"}) /\ [][NextScript]_vars

--------------------------------------------------------------------------
(* Properties *)

CreateOps == {"createCompany", "createManyCompanies", "importCompanies"}

\* the identifiers ids are increasing and above every identifier of before
AboveAll(ids, before) ==
    /\ \A i \in 1..Len(ids) : \A a \in before : ids[i] > a
    /\ \A i, j \in 1..Len(ids) : i < j => ids[i] < ids[j]

\* C1: in MemStorage every identifier a create assigns is strictly greater than
\* every identifier assigned before it, also after records were deleted
C1_MemIdsNeverReused ==
    (variant = "mem" /\ memLast.op \in CreateOps)
        => /\ AboveAll(memLast.ids, memLast.before)
           /\ memLast.op = "createCompany" => memLast.result.id = memLast.ids[1]

\* a create has run after the record with the highest identifier was deleted
C1_Witness ==
    /\ variant = "mem"
    /\ memLast.op = "createCompany"
    /\ memLast.result.id = 4
    /\ ~MapHas(companiesMap, 3)

\* C2: in the mock service every identifier createCompany or importCompanies
\* assigns is strictly greater than every identifier they assigned before
C2_MockIdsNeverReused ==
    (variant = "mock" /\ mockLast.op \in CreateOps)
        => AboveAll(mockLast.ids, mockLast.before)

\* C3: MemStorage and DatabaseStorage answer every call alike
C3_SameResults ==
    (variant = "pair" /\ dbLast.op # "none") => memLast.result = dbLast.result

\* the identifiers of a window are strictly descending
Descending(window) ==
    \A i, j \in 1..Len(window) : i < j => window[i].id > window[j].id

\* C4: getCompanies returns its window in descending identifier order
C4_MemWindowDescending ==
    (variant = "mem" /\ memLast.op = "getCompanies")
        => Descending(memLast.result.companies)

\* the records at 0-based positions first .. first + count - 1 of list, as far
\* as list has them
Positions(list, first, count) ==
    [ k \in 1..Max(0, Min(count, Len(list) - first)) |-> list[first + k] ]

\* a getCompanies answer is the window of list that page and pageSize select
IsWindow(answer, list, page, pageSize) ==
    /\ answer.companies = Positions(list, (page - 1) * pageSize, pageSize)
    /\ answer.total = Len(list)

\* C5: for page >= 1 and pageSize >= 1 getCompanies returns exactly the records
\* at positions (page-1)*pageSize .. (page-1)*pageSize+pageSize-1 of the ordered
\* record list (fewer where the list ends), and total is the number of records
C5_GetCompaniesWindow ==
    /\ (variant = "mem" /\ memLast.op = "getCompanies")
         => IsWindow(memLast.result, companiesMap, memLast.page, memLast.pageSize)
    /\ (variant = "mock" /\ mockLast.op = "getCompanies")
         => IsWindow(mockLast.result, MockCompanies, mockLast.page, mockLast.pageSize)

\* the second page of size 2 of a three-record store: one record
C5_Witness ==
    /\ variant = "mem"
    /\ memLast.op = "getCompanies"
    /\ memLast.page = 2 /\ memLast.pageSize = 2
    /\ Len(companiesMap) = 3
    /\ Len(memLast.result.companies) = 1

\* the route's page and page size as parseInt(...) || default leaves them
OutOfRange(call) ==
    call.page < 1 \/ (call.page - 1) * call.pageSize >= call.result.total

\* C6: an out-of-range page yields an empty window and no error, also for the
\* page numbers GET /companies passes through
C6_OutOfRangeIsEmpty ==
    (variant = "mem" /\ memLast.op \in {"getCompanies", "searchCompanies", "GET /companies"}
        /\ OutOfRange(memLast))
        => /\ memLast.result.companies = <<>>
           /\ memLast.op = "GET /companies" => memLast.status = 200

\* the windows of pages from .. last, one after the other
RECURSIVE MemPages(_, _, _, _)
MemPages(map, n, from, last) ==
    IF from > last THEN <<>>
    ELSE Mem_getCompanies(map, from, n).companies \o MemPages(map, n, from + 1, last)

RECURSIVE MockPages(_, _, _, _)
MockPages(ls, n, from, last) ==
    IF from > last THEN <<>>
    ELSE Mock_getCompanies(ls, from, n).result.companies \o MockPages(ls, n, from + 1, last)

\* no record occurs twice in list
NoRepeat(list) == \A i, j \in 1..Len(list) : i # j => list[i].id # list[j].id

\* C7: for every page size n the windows of pages 1, 2, ... are pairwise
\* disjoint and, concatenated in page order, are the full ordered record list
C7_PagesPartitionList ==
    /\ variant = "mem" =>
         \A n \in PageSizes :
            /\ MemPages(companiesMap, n, 1, Len(companiesMap) + 1) = companiesMap
            /\ NoRepeat(MemPages(companiesMap, n, 1, Len(companiesMap) + 1))
    /\ variant = "mock" =>
         \A n \in PageSizes :
            /\ MockPages(localStorage, n, 1, Len(MockCompanies) + 1) = MockCompanies
            /\ NoRepeat(MockPages(localStorage, n, 1, Len(MockCompanies) + 1))

\* the second of two full pages of a four-record store has just been read
C7_Witness ==
    /\ variant = "mem"
    /\ memLast.op = "getCompanies"
    /\ memLast.page = 2 /\ memLast.pageSize = 2
    /\ Len(companiesMap) = 4
    /\ Len(memLast.result.companies) = 2

\* new is old with the fields of data set on the record id and nothing else
\* changed: same identifiers at the same positions, other records equal
OnlyFieldsChanged(old, new, id, data) ==
    /\ Len(new) = Len(old)
    /\ \A i \in 1..Len(old) :
         IF old[i].id = id
         THEN /\ DOMAIN new[i] = DOMAIN old[i]
              /\ new[i].id = id
              /\ \A f \in DOMAIN data : new[i][f] = data[f]
              /\ \A f \in (DOMAIN old[i]) \ (DOMAIN data) : new[i][f] = old[i][f]
         ELSE new[i] = old[i]

UpdateOps == {"updateCompany", "PUT /companies/:id"}

\* the step is an update call (direct or through PUT) that reached the store
MemUpdated == variant = "mem" /\ memLast'.op \in UpdateOps /\ "data" \in DOMAIN memLast'
MockUpdated == variant = "mock" /\ mockLast'.op \in UpdateOps

\* C8: updateCompany on an existing record changes only the fields of
\* partialData: the record's other fields, its identifier, its position and
\* every other record stay as they were
C8_UpdateChangesOnlyGivenFields ==
    [][ /\ (MemUpdated /\ MapHas(companiesMap, memLast'.id))
            => /\ OnlyFieldsChanged(companiesMap, companiesMap', memLast'.id, memLast'.data)
               /\ memLast'.result = MapGet(companiesMap', memLast'.id)
               /\ currentCompanyId' = currentCompanyId
        /\ MockUpdated
            => \A old \in {MockCompanies}, new \in {MockCompanies'} :
                 MapHas(old, mockLast'.id)
                    => /\ OnlyFieldsChanged(old, new, mockLast'.id, mockLast'.data)
                       /\ mockLast'.result = MapGet(new, mockLast'.id)
      ]_vars

\* an update of the second of four records has succeeded
C8_Witness ==
    /\ variant = "mem"
    /\ memLast.op = "updateCompany"
    /\ memLast.id = 2
    /\ memLast.result # Undefined
    /\ Len(companiesMap) = 4

\* C9: updateCompany for an identifier no record has returns undefined, creates
\* nothing and leaves the store unchanged; PUT /companies/:id answers 404
C9_UpdateOfAbsentIsNoOp ==
    [][ /\ (MemUpdated /\ ~MapHas(companiesMap, memLast'.id))
            => /\ memLast'.result = Undefined
               /\ companiesMap' = companiesMap
               /\ currentCompanyId' = currentCompanyId
               /\ memLast'.op = "PUT /companies/:id" => memLast'.status = 404
        /\ (MockUpdated /\ ~MapHas(MockCompanies, mockLast'.id))
            => /\ mockLast'.result = Undefined
               /\ MockCompanies' = MockCompanies
      ]_vars

\* PUT for an identifier whose record was deleted has answered 404
C9_Witness ==
    /\ variant = "mem"
    /\ memLast.op = "PUT /companies/:id"
    /\ memLast.id = 2
    /\ memLast.status = 404

\* no getCompanies or searchCompanies window of MemStorage holds identifier id
MemListsWithout(map, id) ==
    /\ \A page \in Pages, n \in PageSizes :
         id \notin IdsOf(Mem_getCompanies(map, page, n).companies)
    /\ \A q \in Queries, page \in Pages, n \in PageSizes :
         id \notin IdsOf(Mem_searchCompanies(map, q, page, n).companies)

MockListsWithout(ls, id) ==
    /\ \A page \in Pages, n \in PageSizes :
         id \notin IdsOf(Mock_getCompanies(ls, page, n).result.companies)
    /\ \A q \in Queries, page \in Pages, n \in PageSizes :
         id \notin IdsOf(Mock_searchCompanies(ls, q, page, n).result.companies)

\* C10: deleteCompany(id) returns true exactly when a record had that id; after
\* it getCompany(id) is undefined, no list or search window holds the record,
\* and a further deleteCompany(id) returns false and changes nothing
C10_DeleteRemovesOnce ==
    [][ /\ (variant = "mem" /\ memLast'.op = "deleteCompany")
            => /\ memLast'.result = MapHas(companiesMap, memLast'.id)
               /\ Mem_getCompany(companiesMap', memLast'.id) = Undefined
               /\ memLast'.result => MemListsWithout(companiesMap', memLast'.id)
               /\ Mem_deleteCompany(companiesMap', memLast'.id).result = FALSE
               /\ Mem_deleteCompany(companiesMap', memLast'.id).map = companiesMap'
               /\ ~MapHas(companiesMap, memLast'.id) => companiesMap' = companiesMap
        /\ (variant = "mock" /\ mockLast'.op = "deleteCompany")
            => /\ mockLast'.result = MapHas(MockCompanies, mockLast'.id)
               /\ Mock_getCompany(localStorage', mockLast'.id).result = Undefined
               /\ mockLast'.result => MockListsWithout(localStorage', mockLast'.id)
               /\ Mock_deleteCompany(localStorage', mockLast'.id).result = FALSE
               /\ Mock_deleteCompany(localStorage', mockLast'.id).ls = localStorage'
               /\ ~MapHas(MockCompanies, mockLast'.id) => MockCompanies' = MockCompanies
      ]_vars

\* a second deleteCompany of an identifier that had been assigned and deleted
C10_Witness ==
    /\ variant = "mem"
    /\ memLast.op = "deleteCompany"
    /\ memLast.id \in memAssigned
    /\ memLast.result = FALSE

\* the answer of DELETE /companies/:id fits what the store held: 204 only when
\* a record was removed, 404 when there was none
DeleteAnswerFits(call) ==
    /\ call.status = 204 => call.existed
    /\ ~call.existed => call.status = 404

\* C11: DELETE /companies/:id answers 204 only when a record with that id was
\* removed and 404 when no record has that id, with MemStorage and with
\* DatabaseStorage behind the route
C11_DeleteStatusFitsStore ==
    (variant = "pair" /\ dbLast.op = "DELETE /companies/:id")
        => DeleteAnswerFits(memLast) /\ DeleteAnswerFits(dbLast)

\* q occurs in s when case is ignored (both are sequences of characters)
OccursIgnoringCase(q, s) ==
    \E i \in 0..(Len(s) - Len(q)) :
        \A k \in 1..Len(q) : toLowerChar(s[i + k]) = toLowerChar(q[k])

\* the records of list in which query occurs in one of the five searched fields
Found(list, query) ==
    SelectSeq(list, LAMBDA c :
        \E f \in {"name", "contact", "email", "industry", "location"} :
            OccursIgnoringCase(chars(query), chars(c[f])))

\* the names of the records of list, in order
NamesOf(list) == [ i \in 1..Len(list) |-> list[i].name ]

\* C12: searchCompanies returns the page window of exactly the records in which
\* the query occurs, case ignored, in name, contact, email, industry or
\* location, and total is the number of those records; on a store holding
\* "Acme Inc." and "TechCorp", searchCompanies("acme", 1, 10) returns only
\* "Acme Inc." with total 1
C12_SearchFindsExactlyMatches ==
    /\ (variant = "mem" /\ memLast.op = "searchCompanies")
         => IsWindow(memLast.result, Found(companiesMap, memLast.query),
                     memLast.page, memLast.pageSize)
    /\ (variant = "mock" /\ mockLast.op = "searchCompanies")
         => IsWindow(mockLast.result, Found(MockCompanies, mockLast.query),
                     mockLast.page, mockLast.pageSize)
    /\ (variant = "mem" /\ NamesOf(companiesMap) = <<"Acme Inc.", "TechCorp">>)
         => LET r == Mem_searchCompanies(companiesMap, "acme", 1, 10)
            IN  NamesOf(r.companies) = <<"Acme Inc.">> /\ r.total = 1
    /\ (variant = "mock" /\ NamesOf(MockCompanies) = <<"Acme Inc.", "TechCorp">>)
         => LET r == Mock_searchCompanies(localStorage, "acme", 1, 10).result
            IN  NamesOf(r.companies) = <<"Acme Inc.">> /\ r.total = 1

\* a search for "acme" has found "Acme Inc." and "ACME Labs" among four records
C12_Witness ==
    /\ variant = "mem"
    /\ memLast.op = "searchCompanies"
    /\ memLast.query = "acme"
    /\ Len(companiesMap) = 4
    /\ memLast.result.total = 2

\* record is input with an identifier added
IsStored(record, input) ==
    /\ DOMAIN record = DOMAIN input \cup {"id"}
    /\ \A f \in DOMAIN input : record[f] = input[f]

\* new is old followed by the records of list, in input order, each with an
\* identifier no record of old has and smaller than its successor's
Appended(old, new, list) ==
    /\ Len(new) = Len(old) + Len(list)
    /\ SubSeq(new, 1, Len(old)) = old
    /\ \A k \in 1..Len(list) :
         /\ IsStored(new[Len(old) + k], list[k])
         /\ new[Len(old) + k].id \notin IdsOf(old)
         /\ k < Len(list) => new[Len(old) + k].id < new[Len(old) + k + 1].id

\* the table new is old and one row per record of list, the row of an earlier
\* record with the smaller identifier
Inserted(old, new, list) ==
    /\ old \subseteq new
    /\ Cardinality(new \ old) = Len(list)
    /\ \A r \in new \ old : \A o \in old : r.id # o.id
    /\ \A k \in 1..Len(list) : \E r \in new \ old : IsStored(r, list[k])
    /\ \A j, k \in 1..Len(list) : \A r, s \in new \ old :
         (j < k /\ IsStored(r, list[j]) /\ IsStored(s, list[k])) => r.id < s.id

\* createCompany called for each record of list in turn
RECURSIVE MemCreateEach(_, _, _)
MemCreateEach(map, cur, list) ==
    IF list = <<>> THEN [map |-> map, cur |-> cur]
    ELSE LET one == Mem_createCompany(map, cur, Head(list))
         IN  MemCreateEach(one.map, one.cur, Tail(list))

RECURSIVE MockCreateEach(_, _)
MockCreateEach(ls, list) ==
    IF list = <<>> THEN ls
    ELSE MockCreateEach(Mock_createCompany(ls, Head(list)).ls, Tail(list))

RECURSIVE DbCreateEach(_, _, _)
DbCreateEach(table, seq, list) ==
    IF list = <<>> THEN [table |-> table, seq |-> seq]
    ELSE LET one == Db_createCompany(table, seq, Head(list))
         IN  DbCreateEach(one.table, one.seq, Tail(list))

\* C13: createManyCompanies (importCompanies in the mock service) stores every
\* record of the list as createCompany would, gives the k-th record a smaller
\* identifier than the (k+1)-th, returns the list length, and for an empty
\* list returns 0 and leaves the store and the identifier counter unchanged
C13_BulkCreateStoresInOrder ==
    [][ /\ (variant \in {"mem", "pair"} /\ memLast'.op = "createManyCompanies")
            => /\ Appended(companiesMap, companiesMap', memLast'.list)
               /\ memLast'.result = Len(memLast'.list)
               /\ companiesMap' = MemCreateEach(companiesMap, currentCompanyId,
                                                memLast'.list).map
               /\ currentCompanyId' = MemCreateEach(companiesMap, currentCompanyId,
                                                    memLast'.list).cur
               /\ memLast'.list = <<>>
                    => /\ memLast'.result = 0
                       /\ companiesMap' = companiesMap
                       /\ currentCompanyId' = currentCompanyId
        /\ (variant = "mock" /\ mockLast'.op = "importCompanies")
            => \A old \in {MockCompanies}, new \in {MockCompanies'} :
                 /\ Appended(old, new, mockLast'.list)
                 /\ mockLast'.result = Len(mockLast'.list)
                 /\ new = loadCompanies(MockCreateEach(localStorage, mockLast'.list)).companies
                 /\ mockLast'.list = <<>> => mockLast'.result = 0 /\ new = old
        /\ (variant = "pair" /\ dbLast'.op = "createManyCompanies")
            => /\ Inserted(dbTable, dbTable', dbLast'.list)
               /\ dbLast'.result = Len(dbLast'.list)
               /\ dbTable' = DbCreateEach(dbTable, dbSeq, dbLast'.list).table
               /\ dbSeq' = DbCreateEach(dbTable, dbSeq, dbLast'.list).seq
               /\ dbLast'.list = <<>>
                    => /\ dbLast'.result = 0
                       /\ dbTable' = dbTable
                       /\ dbSeq' = dbSeq
      ]_vars

\* a batch of two different records has been imported after the record with
\* the highest identifier was deleted
C13_Witness ==
    /\ variant = "mock"
    /\ mockLast.op = "importCompanies"
    /\ Len(mockLast.list) = 2
    /\ mockLast.list[1].name = "Nordwind"
    /\ mockLast.result = 2
    /\ mockLast.ids = <<3, 4>>

--------------------------------------------------------------------------
(* Imports *)

\* the last step was POST /import on a readable sheet
ServerImported == memLast.op = "POST /import" /\ memLast.file.kind = "sheet"

\* the last step was processExcelFile on a readable sheet with data rows
ClientImported ==
    /\ mockLast.op = "processExcelFile"
    /\ mockLast.file.kind = "sheet"
    /\ mockLast.file.rows # <<>>

\* name, contact and email of a record are all non-empty
HasRequired(company) ==
    company.name # "" /\ company.contact # "" /\ company.email # ""

\* C14: an import persists a row only if its name, contact and email are all
\* non-empty after header mapping, and the rows
\* [{name A, contact B, email c@d.com}, {name empty, contact X, email y@z.com}]
\* persist exactly one record; on the POST /import handler and in the client
\* import component
C14_ImportKeepsOnlyCompleteRows ==
    /\ ServerImported =>
          /\ \A i \in 1..Len(memLast.created) : HasRequired(memLast.created[i])
          /\ memLast.file.data = <<RowA, RowNoName>> => Len(memLast.created) = 1
    /\ ClientImported =>
          /\ \A i \in 1..Len(mockLast.created) : HasRequired(mockLast.created[i])
          /\ ( /\ mockLast.file.headers = PlainHeaders
               /\ mockLast.file.rows = << <<"A", "B", "c@d.com">>, <<"", "X", "y@z.com">> >> )
             => Len(mockLast.created) = 1

\* the defaults the specification gives for the optional fields
OptionalDefaults(today) ==
    [ phone |-> "N/A", industry |-> "Other", location |-> "Unknown", employees |-> 0,
      revenue |-> "Unknown", status |-> "New", lastContact |-> today ]

\* the optional text fields of a record are not empty
NoEmptyOptional(company) ==
    \A f \in {"phone", "industry", "location", "revenue", "status", "lastContact"} :
        company[f] # ""

\* every optional field of the record holds its default
AllDefaults(company, today) ==
    \A f \in DOMAIN OptionalDefaults(today) : company[f] = OptionalDefaults(today)[f]

\* C15: a record persisted by an import carries, for every optional field its
\* row lacked, the default of that field (phone "N/A", industry "Other",
\* location "Unknown", employees 0, revenue "Unknown", status "New",
\* lastContact the current date), and no imported record has an empty
\* optional field
C15_ImportFillsDefaults ==
    /\ (ServerImported /\ memLast.status = 201) =>
          /\ \A i \in 1..Len(memLast.created) : NoEmptyOptional(memLast.created[i])
          /\ (\A k \in 1..Len(memLast.file.data) :
                  DOMAIN memLast.file.data[k] = {"name", "contact", "email"})
             => \A i \in 1..Len(memLast.created) :
                    AllDefaults(memLast.created[i], memLast.today)
    /\ (ClientImported /\ mockLast.outcome = "Import Successful") =>
          /\ \A i \in 1..Len(mockLast.created) : NoEmptyOptional(mockLast.created[i])
          /\ mockLast.file.headers = PlainHeaders
             => \A i \in 1..Len(mockLast.created) :
                    AllDefaults(mockLast.created[i], mockLast.today)

\* C16: an import in which no row yields a valid record fails (400 on
\* POST /import), persists nothing and reports no success; an import with a
\* valid row succeeds and reports the number of records it persisted
C16_ImportFailsWithoutValidRows ==
    /\ ServerImported =>
          /\ memLast.status \in {201, 400}
          /\ memLast.status = 400 <=> Len(memLast.created) = 0
          /\ memLast.status = 201 => memLast.recordsAdded = Len(memLast.created)
    /\ ClientImported =>
          /\ mockLast.outcome = "Import Failed" <=> Len(mockLast.created) = 0
          /\ mockLast.outcome = "Import Failed" =>
                mockLast.message = "No valid company data found in file"
          /\ mockLast.outcome = "Import Successful" =>
                /\ mockLast.count = Len(mockLast.created)
                /\ mockLast.response.data.count = Len(mockLast.created)

\* C27: every record an import persists, through POST /import or through
\* the client import component, has a non-negative integer employee count,
\* whatever the employees cell held
C27_ImportedEmployeesNonNegative ==
    /\ (ServerImported /\ memLast.status = 201) =>
          \A i \in 1..Len(memLast.created) : memLast.created[i].employees \in Nat
    /\ (ClientImported /\ mockLast.outcome = "Import Successful") =>
          \A i \in 1..Len(mockLast.created) : mockLast.created[i].employees \in Nat

--------------------------------------------------------------------------
(* Sending e-mail *)

\* the last step was POST /send-email with a body that carries an explicit,
\* non-empty id list and asks to send to the selected companies
SentToSelected ==
    /\ memLast.op = "POST /send-email"
    /\ memLast.body \in GoodEmailBodies
    /\ "sendToSelected" \in DOMAIN memLast.body /\ memLast.body.sendToSelected
    /\ "companyIds" \in DOMAIN memLast.body /\ memLast.body.companyIds # <<>>

\* the ids of a list that have a record in the store, in list order
Resolving(ids) == SelectSeq(ids, LAMBDA id : id \in IdsOf(companiesMap))

\* the stored record with the given id
Recipient(id) == companiesMap[CHOOSE i \in 1..Len(companiesMap) : companiesMap[i].id = id]

\* html is content with every placeholder replaced by the company's own
\* name, contact or e-mail address and every other word kept
FilledFor(html, content, company) ==
    /\ Len(html) = Len(content)
    /\ \A i \in 1..Len(content) :
          html[i] = CASE content[i] = "${company}" -> company.name
                      [] content[i] = "${contact}" -> company.contact
                      [] content[i] = "${email}"   -> company.email
                      [] OTHER -> content[i]

\* C17: POST /send-email with an explicit id list hands the mail service
\* exactly one message per id of the list that has a record, in list order,
\* and none for the other ids, which raise no error; each message is
\* addressed to its own recipient and filled with that recipient's fields
C17_OneMessagePerResolvedId ==
    (SentToSelected /\ memLast.transporterOk) =>
        LET ids  == Resolving(memLast.body.companyIds)
            sent == memLast.response.sent
        IN  /\ Len(sent) = Len(ids)
            /\ \A k \in 1..Len(ids) :
                  /\ sent[k].to = Recipient(ids[k]).email
                  /\ sent[k].subject = memLast.body.subject
                  /\ FilledFor(sent[k].html, memLast.body.content, Recipient(ids[k]))
            /\ (ids # <<>> /\ memLast.rejected \cap (1..Len(ids)) = {})
                  => memLast.response.status = 200

\* a list of one id without a record and one id with a record got one message
C17_Witness ==
    /\ SentToSelected /\ memLast.transporterOk
    /\ memLast.body.companyIds = <<5, 2>>
    /\ 5 \notin IdsOf(companiesMap)
    /\ 2 \in IdsOf(companiesMap)
    /\ memLast.response.status = 200
    /\ Len(memLast.response.sent) = 1
    /\ memLast.response.sent[1].to = Recipient(2).email
    /\ memLast.response.sent[1].html[2] = Recipient(2).contact

\* the last step was POST /send-email with a body emailSchema accepts
SentValid == memLast.op = "POST /send-email" /\ memLast.body \in GoodEmailBodies

\* the request of the last step resolves to no recipient: none of the listed
\* ids has a record, or, when all companies are addressed, the store is empty
NoRecipient ==
    IF SentToSelected THEN Resolving(memLast.body.companyIds) = <<>>
                      ELSE companiesMap = <<>>

\* C18: POST /send-email with a valid body answers 400, having handed no
\* message to the mail service, exactly when the resolved recipient list is
\* empty; with a recipient it is not refused for that reason
C18_EmptyRecipientsIs400 ==
    SentValid =>
        /\ memLast.response.status = 400 <=> NoRecipient
        /\ memLast.response.message = "No companies to send emails to" <=> NoRecipient
        /\ NoRecipient => memLast.response.sent = <<>>

\* send-to-all on an empty store was refused
C18_Witness ==
    /\ SentValid /\ ~SentToSelected
    /\ companiesMap = <<>>
    /\ memLast.response.status = 400
    /\ memLast.response.sent = <<>>

\* the number of recipients the request of the last step resolves to
RecipientCount ==
    IF SentToSelected THEN Len(Resolving(memLast.body.companyIds))
                      ELSE Len(companiesMap)

\* C19: when the dispatch of one recipient's message fails, the messages of
\* the other recipients are still handed to the mail service, the response
\* reports an outcome for each recipient, and the request does not fail
C19_FailedSendDoesNotAbort ==
    ( /\ SentValid /\ memLast.transporterOk
      /\ memLast.rejected \cap (1..RecipientCount) # {} )
    => /\ Len(memLast.response.sent) = RecipientCount
       /\ memLast.response.status = 200
       /\ "details" \in DOMAIN memLast.response
       /\ Len(memLast.response.details) = RecipientCount

\* the ids the request of the last step lists
ListedIds ==
    IF "companyIds" \in DOMAIN memLast.body
    THEN { memLast.body.companyIds[i] : i \in 1..Len(memLast.body.companyIds) }
    ELSE {}

\* C22: when sendToSelected is true, POST /send-email hands the mail service
\* messages only for companies whose ids are listed in companyIds, and none
\* at all when companyIds is empty or missing
C22_OnlySelectedReceive ==
    ( /\ SentValid
      /\ "sendToSelected" \in DOMAIN memLast.body /\ memLast.body.sendToSelected )
    => \A k \in 1..Len(memLast.response.sent) :
           \E id \in ListedIds \cap IdsOf(companiesMap) :
               memLast.response.sent[k].to = Recipient(id).email

--------------------------------------------------------------------------
(* Validation *)

\* the request recorded in call carried a body its schema rejects
InvalidBody(call) ==
    CASE call.op = "POST /companies"     -> ~(CompanyKeys \subseteq DOMAIN call.body)
      [] call.op = "PUT /companies/:id"  -> ~call.body.ok
      [] call.op = "POST /send-email"    -> call.body \in BadEmailBodies
      [] OTHER -> FALSE

\* the status and the messages of the response recorded in call
AnswerOf(call) ==
    IF call.op = "POST /send-email"
    THEN [status |-> call.response.status, sent |-> call.response.sent]
    ELSE [status |-> call.status, sent |-> <<>>]

\* C20: a POST /companies, PUT /companies/:id or POST /send-email request
\* whose body fails validation is answered 400, hands no message to the mail
\* service and leaves the store content and the identifier counter as they
\* were before the request
C20_InvalidBodyChangesNothing ==
    [][ \A call \in {memLast'} :
          InvalidBody(call) =>
              /\ AnswerOf(call).status = 400
              /\ AnswerOf(call).sent = <<>>
              /\ companiesMap' = companiesMap
              /\ currentCompanyId' = currentCompanyId ]_vars

\* a POST /companies without email was refused on a store of three records
C20_Witness ==
    /\ memLast.op = "POST /companies"
    /\ "email" \notin DOMAIN memLast.body
    /\ "name" \in DOMAIN memLast.body
    /\ memLast.status = 400
    /\ Len(companiesMap) = 3
    /\ currentCompanyId = 4

--------------------------------------------------------------------------
(* The mock client's apiRequest *)

\* the identifiers of the stored records of the mock service, in list order
MockIdList(ls) ==
    LET companies == loadCompanies(ls).companies
    IN  [ i \in 1..Len(companies) |-> companies[i].id ]

\* a is an initial part of b
IsPrefix(a, b) == Len(a) <= Len(b) /\ SubSeq(b, 1, Len(a)) = a

\* C21: whatever requests go through the mock apiRequest, the stored records
\* have pairwise distinct identifiers, and a request other than a DELETE
\* leaves every stored record in its place with the identifier it had
C21_MockIdsUniqueAndStable ==
    [][ \A before \in {MockIdList(localStorage)}, after \in {MockIdList(localStorage')} :
          mockLast'.op = "apiRequest" =>
              /\ \A i, j \in 1..Len(after) : i # j => after[i] # after[j]
              /\ mockLast'.method # "DELETE" => IsPrefix(before, after) ]_vars

\* C26: the mock apiRequest answers DELETE /api/companies/:id for an id no
\* record has with a 404 response that is not ok, and leaves the stored list
\* as it was
C26_MockDeleteAbsentIs404 ==
    [][ ( /\ mockLast'.op = "apiRequest"
          /\ mockLast'.method = "DELETE"
          /\ mockLast'.url.id \notin IdsOf(MockCompanies) )
        => /\ mockLast'.response.status = 404
           /\ ~mockLast'.response.ok
           /\ MockCompanies' = MockCompanies ]_vars

--------------------------------------------------------------------------
(* Empty search *)

\* the last step was a GET of the collection through apiRequest without a
\* search text
MockListedUnfiltered ==
    /\ mockLast.op = "apiRequest" /\ mockLast.method = "GET"
    /\ "params" \in DOMAIN mockLast.url
    /\ "search" \in DOMAIN mockLast.url.params => mockLast.url.params.search = ""

\* the parameter of the last apiRequest, or its default
ParamOf(key, dflt) ==
    IF key \in DOMAIN mockLast.url.params THEN mockLast.url.params[key] ELSE dflt

\* C25: on every store, for every page and page size, searchCompanies with
\* the empty query returns the items and the total getCompanies returns
\* (MemStorage and mockDataService), so GET of the list without a search
\* text answers what searchCompanies("") would have answered
C25_EmptySearchIsNoFilter ==
    /\ variant = "mem" =>
          /\ \A page \in Pages, pageSize \in PageSizes :
                Mem_searchCompanies(companiesMap, "", page, pageSize)
                    = Mem_getCompanies(companiesMap, page, pageSize)
          /\ (memLast.op = "GET /companies" /\ memLast.query = "") =>
                memLast.body = Mem_searchCompanies(companiesMap, "", memLast.page,
                                                   memLast.pageSize)
    /\ variant = "mock" =>
          /\ \A page \in Pages, pageSize \in PageSizes :
                Mock_searchCompanies(localStorage, "", page, pageSize).result
                    = Mock_getCompanies(localStorage, page, pageSize).result
          /\ MockListedUnfiltered =>
                mockLast.response.data
                    = Mock_searchCompanies(localStorage, "", ParamOf("page", DefaultPage),
                                           ParamOf("pageSize", DefaultPageSize)).result

\* the list was fetched with an empty search text from a store of four records
C25_Witness ==
    /\ MockListedUnfiltered
    /\ "search" \in DOMAIN mockLast.url.params
    /\ mockLast.response.status = 200
    /\ mockLast.response.data.total = 4
    /\ Len(mockLast.response.data.companies) = 4

--------------------------------------------------------------------------
(* Calls that take turns *)

\* the createManyCompanies calls under way, and the one that returned last
BatchesSeen ==
    { [list |-> inflight[k].insertCompanies, created |-> inflight[k].created] :
        k \in 1..Len(inflight) }
    \cup (IF memLast.op = "createManyCompanies"
          THEN { [list |-> memLast.list, created |-> memLast.created] } ELSE {})

\* C23: with createManyCompanies calls and createCompany calls taking turns
\* at the awaits, the stored records have pairwise distinct identifiers, one
\* record is stored per identifier handed out (none overwritten, none lost),
\* and every call's records are its input records, in input order, with
\* strictly increasing identifiers
C23_InterleavedCreatesKeepIds ==
    /\ NoRepeat(companiesMap)
    /\ Len(companiesMap) = currentCompanyId - 1
    /\ \A b \in BatchesSeen :
          /\ Len(b.created) <= Len(b.list)
          /\ \A i \in 1..Len(b.created) :
                /\ b.created[i] = Spread(b.list[i], [id |-> b.created[i].id])
                /\ MapGet(companiesMap, b.created[i].id) = b.created[i]
                /\ i > 1 => b.created[i - 1].id < b.created[i].id

\* a call of two records returned after another call took the identifier
\* between its two
C23_Witness ==
    /\ memLast.op = "createManyCompanies"
    /\ memLast.result = 2
    /\ memLast.created[1].id = 4
    /\ memLast.created[2].id = 6
    /\ MapHas(companiesMap, 5)

\* C24: the total getCompanies and searchCompanies return is the number of
\* (matching) records of the table state their window was read from, also
\* when another request's create or delete commits between the two queries
C24_TotalAndWindowFromOneState ==
    dbLast.op \in {"getCompanies", "searchCompanies"}
        => dbLast.result.total = Db_countQuery(dbLast.readFrom, dbLast.call)

--------------------------------------------------------------------------
(* The DataTable's page *)

\* C28: once every fetch has completed, the DataTable's page is at least 1
\* and at most max(1, totalPages), with totalPages = ceil(total / pageSize)
\* of the last fetch result: the table is never beyond the last page
C28_PageWithinLastPage ==
    (variant = "table" /\ inflight = <<>>)
        => /\ dataTable.page >= 1
           /\ dataTable.page <= Max(1, totalPages(dataTable.totalCompanies))

--------------------------------------------------------------------------
(* Uploads *)

\* C29: every upload attempt ends: isUploading returns to false; and while
\* isUploading is false no interval timer is left running and
\* uploadProgress is 0
C29_UploadSettles ==
    /\ [](~importExcel.isUploading
            => importExcel.intervals = 0 /\ importExcel.uploadProgress = 0)
    /\ (importExcel.isUploading ~> ~importExcel.isUploading)

--------------------------------------------------------------------------
(* The run-frontend script *)

\* C30: when a run of run-frontend has finished, with the dev server exiting
\* normally or with an error, server/routes.ts holds what it held when that
\* run started, also after edits of routes.ts between the runs
C30_RoutesRestoredAfterRun ==
    script.last \in {"run ended", "run failed"}
        => script.files[RoutesFile] = script.before

====
